---- MODULE Spec2Model ----
(***************************************************************************)
(* Model of the bb-browser daemon's command/response relay:                *)
(*   HttpServer      (packages/daemon/src/http-server.ts)                  *)
(*   RequestManager  (same file, lines 290-360)                            *)
(*   SSEManager      (packages/cli/src/daemon-manager.ts, lines 209-319)   *)
(* Node runs every handler, timer callback and event listener to           *)
(* completion on one thread, so each of them is one atomic action here.    *)
(* And of the extension's reference tracker (unnamed/part_000, 52-91,      *)
(* 183-194, 279-301), whose asynchronous functions are cut at their awaits. *)
(***************************************************************************)
EXTENDS Integers, FiniteSets, Sequences, TLC

\* ------------------------------------------------------------------ bounds
NumIds == 2        \* distinct request identifiers the callers draw from
MaxCalls == 2      \* POST /command requests over one run
NumConns == 3      \* GET /sse requests (ServerResponse objects) over one run
DaemonConns == 2   \* of these, the ones that arrive while commands are modelled
LiveCalls == 1     \* POST /command requests over one run under fair scheduling
NumTabs == 2       \* tabs (sessions) of the reference tracker
MaxRefs == 2       \* handles "0" .. "MaxRefs - 1" a snapshot issues at most
MaxSnaps == 2      \* snapshots taken over one run
NumNodes == 3      \* node identifiers of an accessibility tree given to formatAXTree
MaxDepthOpt == 1   \* largest maxDepth option given to formatAXTree
MaxOptions == 2    \* options of a <select> element
MaxSelects == 1    \* calls of selectOption on one option list
MaxActs == 2       \* element actions called on the page
MaxWaitMs == 3     \* largest maxWait given to waitForElement
MaxInterval == 2   \* largest interval given to waitForElement
MaxPointers == 3   \* child pointers in a node list that is no tree

\* setTimeout delay of RequestManager.add, in clock ticks of the model
\* (one tick is half the timeout; only "elapsed or not" matters).
COMMAND_TIMEOUT == 2

Ids == 1..NumIds
Calls == 1..MaxCalls
Conns == 1..NumConns
\* The payload of a posted Response, told apart by its success flag.
Data == {"success", "failure"}

\* Messages of the daemon (string literals of http-server.ts).
ErrNotConnected == "Extension not connected"
ErrSendFailed == "Failed to send command to extension"
ErrTimeout == "Command timeout"
ErrShutdown == "Daemon shutting down"

VARIABLES
  pending,         \* RequestManager.pending: id -> the call whose resolve/reject
                   \* callbacks and timeout handle the entry holds (0: no entry)
  timer,           \* the setTimeout handle created by add for each call
  ttl,             \* ticks left until that timer is due
  call,            \* per POST /command request: handler position, promise, response
  connection,      \* SSEManager.connection (0: null)
  heartbeatTimer,  \* SSEManager.heartbeatTimer !== null
  stream,          \* per GET /sse ServerResponse: transport state
  running,         \* FALSE once HttpServer.stop() has run
  last,            \* what the handler that ran in the step just taken was given,
                   \* returned and wrote (NoOp after any other step); of a
                   \* posted result that matched no entry only the id is kept
  tabSnapshotRefs, \* the in-memory Map tabId -> refs of the extension process
  storage,         \* chrome.storage.session item 'tabSnapshotRefs'
  boot,            \* the loadRefsFromStorage() call made when the module loads
  cmd,             \* the tracker function that is suspended at an await
  snaps,           \* snapshots taken so far
  recorded,        \* history: per tab, the table of its last completed snapshot
                   \* (none once cleanupTab ran for the tab)
  warm,            \* history: per tab, that snapshot completed in the current
                   \* process lifetime
  reply,           \* what the tracker function that returned in the step just
                   \* taken was given and returned (NoReply after other steps)
  nodes,           \* the AXNode[] given to formatAXTree, by nodeId
  options,         \* the FormatOptions given to formatAXTree
  result,          \* the FormatResult it returned (NoResult before the call)
  element,         \* the page element that handle "0" of tab 1 names
  act,             \* what the latest step of an element action was given,
                   \* threw or returned, and how many instrumentation calls
                   \* it issued
  acts,            \* element actions called so far
  waiting,         \* the waitForElement call that is in its polling loop
  saving           \* per tab, the getSnapshot call that runs beside the calls
                   \* for other tabs, and where its saveRefsToStorage stands

daemonVars == <<pending, timer, ttl, call, connection, heartbeatTimer, stream,
                running>>
refVars == <<tabSnapshotRefs, storage, boot, cmd, snaps, recorded, warm, reply>>
fmtVars == <<nodes, options, result>>
domVars == <<element, act, acts, waiting>>
extVars == <<fmtVars, domVars, saving>>
vars == <<daemonVars, last, refVars, extVars>>

\* The whole state as one record, so that methods compose as functions on it.
\* Field ret carries the return value of the method applied last, field out
\* the ServerResponse that sendEvent wrote to (0: nothing was written), and
\* status / code the HTTP status and envelope code written to the requester
\* of a POST /result or of a request whose body could not be used.
Cur ==
  [pending |-> pending, timer |-> timer, ttl |-> ttl, call |-> call,
   connection |-> connection, heartbeatTimer |-> heartbeatTimer,
   stream |-> stream, running |-> running, ret |-> FALSE, out |-> 0,
   status |-> 0, code |-> 0]

Becomes(d) ==
  /\ pending' = d.pending
  /\ timer' = d.timer
  /\ ttl' = d.ttl
  /\ call' = d.call
  /\ connection' = d.connection
  /\ heartbeatTimer' = d.heartbeatTimer
  /\ stream' = d.stream
  /\ running' = d.running
  /\ UNCHANGED <<refVars, extVars>>

NoOp ==
  [op |-> "none", id |-> 0, data |-> "", ret |-> FALSE, out |-> 0,
   status |-> 0, code |-> 0]

NoCall ==
  [id |-> 0, st |-> "idle", nres |-> 0, status |-> 0, error |-> "", rid |-> 0,
   data |-> "", settles |-> 0, promise |-> "none", waited |-> 0]

Min(a, b) == IF a < b THEN a ELSE b

\* ------------------------------------------------------------ HttpServer
\* sendJson(res, status, data): one HTTP response on the caller's connection.
\* nres counts the responses written for the call (capped at 2); the caller's
\* wait is over.
sendJson(d, c, status, body) ==
  [d EXCEPT !.call[c] =
     [@ EXCEPT !.st = "done", !.nres = Min(@ + 1, 2), !.status = status,
               !.error = body.error, !.rid = body.id, !.data = body.data,
               !.waited = 0]]

\* The resolver / rejecter callback of call c's promise is invoked. Only the
\* first settlement counts; when handleCommand is suspended at its await
\* (st = "waiting") the continuation answers 200 with the response, or 408
\* with the error message and the request's own id.
settle(d, c, kind, value) ==
  LET d1 == [d EXCEPT !.call[c].settles = Min(@ + 1, 2)]
  IN IF d.call[c].promise # "pending" THEN d1
     ELSE LET d2 == [d1 EXCEPT !.call[c].promise = kind]
          IN IF d.call[c].st # "waiting" THEN d2
             ELSE IF kind = "fulfilled" THEN sendJson(d2, c, 200, value)
             ELSE sendJson(d2, c, 408,
                           [id |-> d.call[c].id, error |-> value.error, data |-> ""])

\* -------------------------------------------------------- RequestManager
pendingCount(d) == Cardinality({i \in Ids : d.pending[i] # 0})

clearTimeout(d, c) ==
  [d EXCEPT !.timer[c] = IF @ = "armed" THEN "cleared" ELSE @, !.ttl[c] = 0]

\* Mutants of add: no timer is armed / the timer is armed one tick short.
addWithoutTimer(d, requestId, c) ==
  [d EXCEPT !.pending[requestId] = c]

addShortTimer(d, requestId, c) ==
  [d EXCEPT !.timer[c] = "armed", !.ttl[c] = COMMAND_TIMEOUT - 1,
            !.pending[requestId] = c]

\* add(requestId, resolve, reject): arms a timer and sets the map entry; an
\* entry already stored under requestId is overwritten, its timer left armed.
add(d, requestId, c) ==
  [d EXCEPT !.timer[c] = "armed", !.ttl[c] = COMMAND_TIMEOUT,
            !.pending[requestId] = c]

\* Mutant of resolve: the entry is not deleted from the map.
resolveKeepsEntry(d, requestId, response) ==
  LET pendingRequest == d.pending[requestId]
  IN IF pendingRequest = 0 THEN [d EXCEPT !.ret = FALSE]
     ELSE [settle(clearTimeout(d, pendingRequest), pendingRequest, "fulfilled",
                  response) EXCEPT !.ret = TRUE]

\* Mutant of resolve: the oldest pending entry is taken instead of the one
\* stored under requestId.
resolveAny(d, requestId, response) ==
  LET have == {i \in Ids : d.pending[i] # 0}
  IN IF have = {} THEN [d EXCEPT !.ret = FALSE]
     ELSE LET i == CHOOSE j \in have : \A m \in have : d.pending[j] <= d.pending[m]
              pendingRequest == d.pending[i]
          IN [settle([clearTimeout(d, pendingRequest) EXCEPT !.pending[i] = 0],
                     pendingRequest, "fulfilled", response) EXCEPT !.ret = TRUE]

resolve(d, requestId, response) ==
  LET pendingRequest == d.pending[requestId]
  IN IF pendingRequest = 0 THEN [d EXCEPT !.ret = FALSE]
     ELSE LET d1 == clearTimeout(d, pendingRequest)
              d2 == [d1 EXCEPT !.pending[requestId] = 0]
              d3 == settle(d2, pendingRequest, "fulfilled", response)
          IN [d3 EXCEPT !.ret = TRUE]

\* Mutant of timeout: the entry is not deleted from the map.
timeoutKeepsEntry(d, requestId) ==
  LET pendingRequest == d.pending[requestId]
  IN IF pendingRequest = 0 THEN d
     ELSE settle(d, pendingRequest, "rejected",
                 [id |-> 0, error |-> ErrTimeout, data |-> ""])

timeout(d, requestId) ==
  LET pendingRequest == d.pending[requestId]
  IN IF pendingRequest = 0 THEN d
     ELSE LET d1 == [d EXCEPT !.pending[requestId] = 0]
          IN settle(d1, pendingRequest, "rejected",
                    [id |-> 0, error |-> ErrTimeout, data |-> ""])

\* The for-of loop of clear() over the entries with identifiers i..NumIds.
RECURSIVE clearLoop(_, _)
clearLoop(d, i) ==
  IF i > NumIds THEN d
  ELSE IF d.pending[i] = 0 THEN clearLoop(d, i + 1)
  ELSE clearLoop(settle(clearTimeout(d, d.pending[i]), d.pending[i], "rejected",
                        [id |-> 0, error |-> ErrShutdown, data |-> ""]),
                 i + 1)

clear(d) ==
  [clearLoop(d, 1) EXCEPT !.pending = [i \in Ids |-> 0]]

\* ------------------------------------------------------------ SSEManager
\* res.writableEnded: end() was called. (It is read on the manager's
\* connection only, which is never a response whose 'close' was dispatched.)
writableEnded(d, k) == d.stream[k] = "ended"

isConnected(d) == d.connection # 0 /\ ~writableEnded(d, d.connection)

stopHeartbeat(d) == [d EXCEPT !.heartbeatTimer = FALSE]

startHeartbeat(d) == [stopHeartbeat(d) EXCEPT !.heartbeatTimer = TRUE]

\* Mutant of cleanupConnection: the connection is dropped, the interval kept.
cleanupKeepsHeartbeat(d) == [d EXCEPT !.connection = 0]

\* cleanupConnection were it to drop the pending entries with the connection.
cleanupConnectionDropping(d) ==
  [stopHeartbeat(d) EXCEPT !.connection = 0, !.pending = [i \in Ids |-> 0]]

cleanupConnection(d) == [stopHeartbeat(d) EXCEPT !.connection = 0]

\* connection.end(): the response is finished; its 'close' event follows later.
end(d, k) == [d EXCEPT !.stream[k] = "ended"]

disconnect(d) ==
  LET d1 == stopHeartbeat(d)
      d2 == IF d1.connection # 0 /\ ~writableEnded(d1, d1.connection)
            THEN end(d1, d1.connection) ELSE d1
  IN [d2 EXCEPT !.connection = 0]

\* sendEvent(eventType, data). connection.write can throw only on a transport
\* that is already broken (peer gone, 'close' not yet dispatched); whether it
\* does is the runtime's choice, given as `throws`.
\* Mutant of sendEvent: without a connection nothing is written, yet the
\* method reports success (this.connection?.write(...); return true).
sendEventOptional(d, eventType, throws) ==
  IF d.connection = 0 \/ writableEnded(d, d.connection)
  THEN [d EXCEPT !.ret = TRUE, !.out = 0]
  ELSE IF throws /\ d.stream[d.connection] = "broken"
  THEN [d EXCEPT !.ret = FALSE, !.out = 0]
  ELSE [d EXCEPT !.out = d.connection, !.ret = TRUE]

sendEvent(d, eventType, throws) ==
  IF d.connection = 0 \/ writableEnded(d, d.connection)
  THEN [d EXCEPT !.ret = FALSE, !.out = 0]
  ELSE IF throws /\ d.stream[d.connection] = "broken"
  THEN [d EXCEPT !.ret = FALSE, !.out = 0]
  ELSE [d EXCEPT !.out = d.connection, !.ret = TRUE]

sendCommand(d, throws) == sendEvent(d, "command", throws)

\* connect(res): res is ServerResponse k, open when its request arrives.
connect(d, k) ==
  LET d1 == IF d.connection # 0 THEN disconnect(d) ELSE d
      d2 == [d1 EXCEPT !.stream[k] = "open", !.connection = k]
      d3 == sendEvent(d2, "connected", FALSE)
  IN startHeartbeat(d3)

\* The setInterval callback of startHeartbeat.
heartbeat(d, throws) ==
  LET d1 == sendEvent(d, "heartbeat", throws)
  IN IF ~d1.ret THEN cleanupConnection(d1) ELSE d1

\* ------------------------------------------------ HttpServer's handlers
\* Mutant of handleCommand: the isConnected check is missing.
handleCommandNoCheck(d, c, id, throws) ==
  LET d1 == add([d EXCEPT !.call[c].id = id, !.call[c].promise = "pending"], id, c)
      d2 == sendCommand(d1, throws)
      sent == d2.ret
  IN IF ~sent
     THEN [sendJson(resolve(d2, id, [id |-> id, error |-> ErrSendFailed,
                                     data |-> ""]),
                    c, 503, [id |-> id, error |-> ErrSendFailed, data |-> ""])
           EXCEPT !.ret = sent]
     ELSE [d2 EXCEPT !.call[c].st = "waiting"]

\* Mutant of handleCommand: a failed delivery is answered 503 without
\* resolving the entry that was registered.
handleCommandLeak(d, c, id, throws) ==
  LET d0 == [d EXCEPT !.call[c].id = id]
  IN IF ~isConnected(d0)
     THEN sendJson(d0, c, 503, [id |-> id, error |-> ErrNotConnected, data |-> ""])
     ELSE LET d1 == add([d0 EXCEPT !.call[c].promise = "pending"], id, c)
              d2 == sendCommand(d1, throws)
              sent == d2.ret
          IN IF ~sent
             THEN sendJson(d2, c, 503,
                           [id |-> id, error |-> ErrSendFailed, data |-> ""])
             ELSE [d2 EXCEPT !.call[c].st = "waiting"]

\* POST /command, request c carrying identifier id (body decoded). ret is the
\* value sendCommand returned (FALSE when it was not called).
handleCommand(d, c, id, throws) ==
  LET d0 == [d EXCEPT !.call[c].id = id]
  IN IF ~isConnected(d0)
     THEN sendJson(d0, c, 503, [id |-> id, error |-> ErrNotConnected, data |-> ""])
     ELSE LET d1 == add([d0 EXCEPT !.call[c].promise = "pending"], id, c)
              d2 == sendCommand(d1, throws)
              sent == d2.ret
          IN IF ~sent
             THEN [sendJson(resolve(d2, id, [id |-> id, error |-> ErrSendFailed,
                                             data |-> ""]),
                            c, 503, [id |-> id, error |-> ErrSendFailed, data |-> ""])
                   EXCEPT !.ret = sent]
             ELSE [d2 EXCEPT !.call[c].st = "waiting"]

\* Mutant of handleResult: a posting that matches no entry is answered 404.
handleResultNotFound(d, id, data) ==
  LET d1 == resolve(d, id, [id |-> id, error |-> "", data |-> data])
      resolved == d1.ret
  IN IF resolved THEN [d1 EXCEPT !.status = 200, !.code = 0]
     ELSE [d1 EXCEPT !.status = 404, !.code = 1]

\* POST /result with body {id, data} (decoded); ret is the resolved flag.
handleResult(d, id, data) ==
  LET d1 == resolve(d, id, [id |-> id, error |-> "", data |-> data])
      resolved == d1.ret
  IN IF resolved THEN [d1 EXCEPT !.status = 200, !.code = 0]
     ELSE [d1 EXCEPT !.status = 200, !.code = 1]

\* Request bodies from which no request object is read: "unparsable" makes
\* JSON.parse throw; "null" parses to null, so that reading request.id throws
\* a TypeError wherever it is evaluated first.
BadBodies == {"unparsable", "null"}

\* handleCommand on such a body. "unparsable": line 127 throws into the outer
\* catch. "null": when disconnected, building the 503 body throws (line 132);
\* when connected, the promise executor throws before add is called (the
\* promise is rejected, nothing is registered), sendCommand(null) writes the
\* event, the await rejects and building the 408 body throws (line 168). All
\* end in the outer catch, which answers 400. (The write of the "null" event
\* is taken not to throw: if it throws, the rejected promise is left without
\* a handler and what follows is the runtime's unhandled-rejection policy.)
\* Mutant of handleCommandBadBody: the body is pushed to the extension before
\* it is looked at.
handleCommandBadBodyPushed(d, body) ==
  [sendCommand(d, FALSE) EXCEPT !.status = 400]

handleCommandBadBody(d, body) ==
  IF body = "unparsable" \/ ~isConnected(d)
  THEN [d EXCEPT !.status = 400]
  ELSE [sendCommand(d, FALSE) EXCEPT !.status = 400]

\* handleResult on such a body: line 194 throws, or reading result.id at
\* line 197 throws before resolve is called; the catch answers 400, code -1.
handleResultBadBody(d, body) ==
  [d EXCEPT !.status = 400, !.code = -1]

handleSSE(d, k) == connect(d, k)

\* HttpServer.stop(); server.close() ends the acceptance of new requests.
stop(d) == [disconnect(clear(d)) EXCEPT !.running = FALSE]

\* ----------------------------------------------- reference tracker
Tabs == 1..NumTabs

\* A refs table is what one snapshot produced: formatAXTree issues the
\* handles "0", "1", ... in sequence, so a table is told by the snapshot it
\* comes from (gen) and the number of its handles (size). NoTable stands for
\* undefined (no Map entry, no property of the stored object).
NoTable == [gen |-> 0, size |-> 0]
Null == [gen |-> 0, n |-> 0]
NoReply == [op |-> "none", tab |-> 0, n |-> 0, ret |-> Null, loads |-> 0]
Idle == [op |-> "idle", tab |-> 0, refs |-> NoTable, refId |-> 0]

\* No getSnapshot call is in flight for the tab.
NotSaving == [st |-> "idle", refs |-> NoTable, stored |-> <<>>]

\* The ref strings given to getRefInfo: a handle number, with or without '@'.
Refs == [at : BOOLEAN, n : 0..MaxRefs]

\* ref.startsWith('@') ? ref.slice(1) : ref
refIdOf(ref) == ref.n

\* refs?.[refId]: the RefInfo stored under the handle, of the snapshot's gen.
Lookup(refs, refId) ==
  IF refs = NoTable \/ refId >= refs.size THEN Null
  ELSE [gen |-> refs.gen, n |-> refId]

\* The loop of loadRefsFromStorage over the stored object: every tab that has
\* a stored table gets it set in the Map, the other Map entries are kept.
loadInto(mem, stored) ==
  [t \in Tabs |-> IF stored[t] # NoTable THEN stored[t] ELSE mem[t]]

\* Mutant of saveInto: only the tab just saved is kept in the stored object.
saveOnly(stored, tabId, refs) ==
  [t \in Tabs |-> IF t = tabId THEN refs ELSE NoTable]

\* saveRefsToStorage: stored[String(tabId)] = refs on the object read back.
saveInto(stored, tabId, refs) ==
  [stored EXCEPT ![tabId] = refs]

\* ------------------------------------------------- ax-tree-formatter
NodeIds == 1..NumNodes

INTERACTIVE_ROLES ==
  {"button", "link", "textbox", "searchbox", "combobox", "listbox",
   "checkbox", "radio", "slider", "spinbutton", "switch",
   "tab", "menuitem", "menuitemcheckbox", "menuitemradio",
   "option", "treeitem"}
SKIP_ROLES == {"none", "InlineTextBox", "LineBreak", "Ignored"}
CONTENT_ROLES_WITH_REF == {"heading", "img", "cell", "columnheader", "rowheader"}

\* A name longer than the 50 characters a node line shows of it, and what
\* truncate(name, 50) makes of it: its first 47 characters and "...".
LongName == "Open the quarterly report of the northern sales region in a new tab"
LongNameCut == "Open the quarterly report of the northern sales..."

\* An AXNode without its childIds: present is FALSE for an identifier that is
\* in no element of the input array; backend says backendDOMNodeId is defined,
\* href that urlMap has a URL for it.
AXNode(ignored, role, name, backend, href) ==
  [present |-> TRUE, ignored |-> ignored, role |-> role, name |-> name,
   backend |-> backend, href |-> href]
Missing ==
  [present |-> FALSE, ignored |-> FALSE, role |-> "", name |-> "",
   backend |-> FALSE, href |-> FALSE]

\* The nodes the trees of the model are made of.
NodeKinds ==
  {Missing,
   AXNode(TRUE, "generic", "", TRUE, FALSE),
   AXNode(FALSE, "button", "Save", TRUE, FALSE),
   AXNode(FALSE, "button", " Save", TRUE, FALSE),
   AXNode(FALSE, "button", "Save", FALSE, FALSE),
   AXNode(FALSE, "heading", "Save", TRUE, FALSE),
   AXNode(FALSE, "StaticText", "Save", FALSE, FALSE),
   AXNode(FALSE, "list", "", TRUE, FALSE),
   AXNode(FALSE, "link", LongName, TRUE, TRUE)}

RECURSIVE Ascending(_)
Ascending(S) ==
  IF S = {} THEN <<>>
  ELSE LET m == CHOOSE x \in S : \A y \in S : x <= y
       IN <<m>> \o Ascending(S \ {m})

\* The shapes of the input: node 1 is nodes[0], the root; every other
\* identifier is a child of one earlier identifier, children in rising order.
\* A child identifier whose node is Missing is a dangling reference, and the
\* nodes below it are nodes of the array that the root does not reach.
Parents ==
  {p \in [NodeIds -> 0..NumNodes] :
     /\ p[1] = 0
     /\ \A k \in NodeIds : k > 1 => (p[k] >= 1 /\ p[k] < k)}

MakeTree(kind, p) ==
  [n \in NodeIds |->
     [present |-> kind[n].present, ignored |-> kind[n].ignored,
      role |-> kind[n].role, name |-> kind[n].name,
      backend |-> kind[n].backend, href |-> kind[n].href,
      childIds |-> Ascending({k \in NodeIds : p[k] = n})]]

\* An array without a first element is the empty array.
Trees ==
  {MakeTree(kind, p) :
     kind \in {k \in [NodeIds -> NodeKinds] :
                 k[1] = Missing => \A n \in NodeIds : k[n] = Missing},
     p \in Parents}

\* Node lists whose childIds are no tree: the pointers of the first three
\* nodes go to any of the three, so a node can be the child of two nodes,
\* twice the child of one, or a descendant of itself.
GraphIds == {1, 2, 3}
GraphKinds ==
  {AXNode(TRUE, "generic", "", TRUE, FALSE),
   AXNode(FALSE, "button", "Save", TRUE, FALSE),
   AXNode(FALSE, "list", "", TRUE, FALSE)}
ChildLists ==
  {<<>>} \cup {<<a>> : a \in GraphIds} \cup {<<a, b>> : a, b \in GraphIds}

RECURSIVE Pointers(_, _)
Pointers(c, ids) ==
  IF ids = {} THEN 0
  ELSE LET n == CHOOSE x \in ids : TRUE
       IN Len(c[n]) + Pointers(c, ids \ {n})

Graphs ==
  {[n \in NodeIds |->
      IF n \in GraphIds
      THEN [present |-> TRUE, ignored |-> kind[n].ignored, role |-> kind[n].role,
            name |-> kind[n].name, backend |-> kind[n].backend,
            href |-> kind[n].href, childIds |-> c[n]]
      ELSE [present |-> FALSE, ignored |-> FALSE, role |-> "", name |-> "",
            backend |-> FALSE, href |-> FALSE, childIds |-> <<>>]] :
     kind \in [GraphIds -> GraphKinds],
     c \in {d \in [GraphIds -> ChildLists] : Pointers(d, GraphIds) <= MaxPointers}}

\* FormatOptions; limited is maxDepth !== undefined.
Options ==
  {o \in [interactive : BOOLEAN, compact : BOOLEAN, limited : BOOLEAN,
          maxDepth : 0..MaxDepthOpt] : ~o.limited => o.maxDepth = 0}

NoResult == [snapshot |-> <<>>, refs |-> <<>>, done |-> FALSE, threw |-> FALSE]

\* name.trim()
trim(name) == IF name = " Save" THEN "Save" ELSE name

\* truncate(text, max)
truncate(text, max) == IF text = LongName /\ max < 67 THEN LongNameCut ELSE text

\* role.charAt(0).toLowerCase() + role.slice(1)
displayRoleOf(role) == IF role = "StaticText" THEN "staticText" ELSE role

\* One line of the snapshot text: indent(depth), what the line is ("node",
\* "text", "url" or the "(empty)" placeholder), the role and quoted name
\* written, the [ref=] and [nth=] marks (nth 0: no mark). Field node is the
\* nodeId the line was written for; the formatter never reads it.
Line(depth, kind, role, name, hasRef, ref, nth, nodeId) ==
  [indent |-> depth, kind |-> kind, role |-> role, name |-> name,
   hasRef |-> hasRef, ref |-> ref, nth |-> nth, node |-> nodeId]
Placeholder == Line(0, "empty", "", "", FALSE, 0, 0, 0)

\* createRoleNameTracker and the locals of formatAXTree before traverse runs.
\* frames is the number of calls of traverse that have not returned, overflow
\* that the engine has refused a further call.
NoLines ==
  [lines |-> <<>>, refs |-> <<>>, refCounter |-> 0,
   counts |-> <<>>, refsByKey |-> <<>>, frames |-> 0, overflow |-> FALSE]

\* The call stack of the engine is finite: a call that would nest deeper
\* than it allows throws "RangeError: Maximum call stack size exceeded",
\* which nothing in formatAXTree catches. The limit of the model is above
\* the nesting of every walk that returns: such a walk has no node twice at
\* one depth on a path, and no node twice at all without maxDepth, which
\* alone ends a path that comes back to a node.
StackLimit == NumNodes * (MaxDepthOpt + 2) + 1

\* formatAXTree left by that exception: nothing is returned.
RangeError == [snapshot |-> <<>>, refs |-> <<>>, done |-> TRUE, threw |-> TRUE]

getKey(role, name) == <<role, name>>

\* counts.get(key) ?? 0
countOf(st, key) == IF key \in DOMAIN st.counts THEN st.counts[key] ELSE 0

\* refsByKey.get(key) ?? []
refsOf(st, key) == IF key \in DOMAIN st.refsByKey THEN st.refsByKey[key] ELSE <<>>

\* Mutant of nextRef: the counter is not advanced.
nextRefStuck(st) == st

\* nextRef: refCounter++ (the handle returned is the value before).
nextRef(st) == [st EXCEPT !.refCounter = @ + 1]

\* Mutant of getNextIndex: the count of the key is not advanced.
getNextIndexStuck(st, key) == st

\* tracker.getNextIndex: counts.set(key, current + 1).
getNextIndex(st, key) ==
  [st EXCEPT !.counts = (key :> (countOf(st, key) + 1)) @@ @]

\* tracker.trackRef
trackRef(st, key, ref) ==
  [st EXCEPT !.refsByKey = (key :> Append(refsOf(st, key), ref)) @@ @]

shouldAssignRef(role, opts) ==
  IF opts.interactive THEN role \in INTERACTIVE_ROLES
  ELSE role \in INTERACTIVE_ROLES \/ role \in CONTENT_ROLES_WITH_REF

\* Mutant of nodeMapHas: every identifier is taken to name a node.
nodeMapHasAll(ns, nodeId) == TRUE

\* nodeMap.get(nodeId) is defined
nodeMapHas(ns, nodeId) == ns[nodeId].present

\* Mutant of assignRef: the handle is spent without an entry in refs.
assignRefUnrecorded(st, nodeId, role, name) ==
  trackRef(getNextIndex(nextRef(st), getKey(role, name)), getKey(role, name),
           st.refCounter)

\* lines 243-258: the handle, the tracker entries and the refs entry of a
\* node that gets a reference.
assignRef(st, nodeId, role, name) ==
  LET ref == st.refCounter
      key == getKey(role, name)
      nth == countOf(st, key)
      st1 == trackRef(getNextIndex(nextRef(st), key), key, ref)
  IN [st1 EXCEPT !.refs =
        (ref :> [backendDOMNodeId |-> nodeId, role |-> displayRoleOf(role),
                 name |-> name, hasNth |-> TRUE, nth |-> nth]) @@ @]

RECURSIVE traverse(_, _, _, _, _)
RECURSIVE traverseChildren(_, _, _, _, _)

\* for (const childId of node.childIds || []) traverse(childId, depth)
traverseChildren(ns, opts, st, childIds, depth) ==
  IF childIds = <<>> \/ st.overflow THEN st
  ELSE traverseChildren(ns, opts, traverse(ns, opts, st, Head(childIds), depth),
                        Tail(childIds), depth)

traverse(ns, opts, caller, nodeId, depth) ==
  IF caller.overflow THEN caller
  ELSE IF caller.frames >= StackLimit THEN [caller EXCEPT !.overflow = TRUE]
  ELSE
  LET st == [caller EXCEPT !.frames = @ + 1]
      returned ==
          IF ~nodeMapHas(ns, nodeId) THEN st
          ELSE
          LET node == ns[nodeId]
              role == node.role
              name == trim(node.name)
          IN
          IF node.ignored THEN traverseChildren(ns, opts, st, node.childIds, depth)
          ELSE IF opts.limited /\ depth > opts.maxDepth THEN st
          ELSE IF role \in SKIP_ROLES
          THEN traverseChildren(ns, opts, st, node.childIds, depth)
          ELSE IF opts.interactive /\ role \notin INTERACTIVE_ROLES
          THEN traverseChildren(ns, opts, st, node.childIds, depth)
          ELSE IF role = "StaticText"
          THEN IF name # ""
               THEN [st EXCEPT !.lines =
                       Append(@, Line(depth, "text", "", truncate(name, 100),
                                      FALSE, 0, 0, nodeId))]
               ELSE st
          ELSE IF role \in {"GenericContainer", "generic"} /\ name = ""
          THEN traverseChildren(ns, opts, st, node.childIds, depth)
          ELSE
          LET assign == shouldAssignRef(role, opts) /\ node.backend
              nth == countOf(st, getKey(role, name))
              line == Line(depth, "node", displayRoleOf(role), truncate(name, 50),
                           assign, IF assign THEN st.refCounter ELSE 0,
                           IF assign THEN nth ELSE 0, nodeId)
              st1 == IF assign THEN assignRef(st, nodeId, role, name) ELSE st
          IN
          IF ~opts.interactive /\ role = "link" /\ node.backend /\ node.href
          THEN traverseChildren(ns, opts,
                 [st1 EXCEPT !.lines =
                    @ \o <<line, Line(depth + 1, "url", "", "", FALSE, 0, 0, nodeId)>>],
                 node.childIds, depth + 1)
          ELSE IF opts.interactive THEN [st1 EXCEPT !.lines = Append(@, line)]
          ELSE traverseChildren(ns, opts, [st1 EXCEPT !.lines = Append(@, line)],
                                node.childIds, depth + 1)
  IN [returned EXCEPT !.frames = @ - 1]

\* tracker.getDuplicateKeys
getDuplicateKeys(st) ==
  {key \in DOMAIN st.refsByKey : Len(st.refsByKey[key]) > 1}

\* removeNthFromNonDuplicates: delete refInfo.nth
removeNthFromNonDuplicates(refs, st) ==
  [h \in DOMAIN refs |->
     IF getKey(refs[h].role, refs[h].name) \in getDuplicateKeys(st)
     THEN refs[h]
     ELSE [refs[h] EXCEPT !.hasNth = FALSE, !.nth = 0]]

\* lines 292-311, for one line: the [nth=] mark of a line whose refs entry
\* has a key that is no duplicate is taken out. (No line carries [nth=0],
\* which line 250 never writes.)
cleanLine(line, refs, st) ==
  IF /\ line.hasRef
     /\ line.nth > 0
     /\ line.ref \in DOMAIN refs
     /\ getKey(refs[line.ref].role, refs[line.ref].name) \notin getDuplicateKeys(st)
  THEN [line EXCEPT !.nth = 0]
  ELSE line

\* line.includes('"'): the quotes put around a name.
quoted(line) == line.kind = "node" /\ line.name # ""

\* compactTree, lines 356-363
hasRelevantChildren(lines, i) ==
  \E j \in (i + 1)..Len(lines) :
    /\ \A m \in (i + 1)..j : lines[m].indent > lines[i].indent
    /\ (lines[j].hasRef \/ quoted(lines[j]) \/ lines[j].kind = "text")

\* compactTree, lines 335-367: whether line i is pushed to the result.
kept(lines, i) ==
  \/ lines[i].hasRef
  \/ lines[i].kind \in {"text", "url"}
  \/ quoted(lines[i])
  \/ hasRelevantChildren(lines, i)

\* Mutant of compactFrom: a line that is kept is pushed twice.
RECURSIVE compactFromTwice(_, _)
compactFromTwice(lines, i) ==
  IF i > Len(lines) THEN <<>>
  ELSE (IF kept(lines, i) THEN <<lines[i], lines[i]>> ELSE <<>>)
         \o compactFromTwice(lines, i + 1)

RECURSIVE compactFrom(_, _)
compactFrom(lines, i) ==
  IF i > Len(lines) THEN <<>>
  ELSE (IF kept(lines, i) THEN <<lines[i]>> ELSE <<>>) \o compactFrom(lines, i + 1)

compactTree(lines) == compactFrom(lines, 1)

\* snapshot || '(empty)'
orEmpty(snapshot) == IF snapshot = <<>> THEN <<Placeholder>> ELSE snapshot

\* formatAXTree were traverse to be given no maxDepth.
formatAXTreeNoLimit(ns, opts) ==
  IF ~ns[1].present
  THEN [snapshot |-> <<Placeholder>>, refs |-> <<>>, done |-> TRUE, threw |-> FALSE]
  ELSE
  LET st == traverse(ns, [opts EXCEPT !.limited = FALSE], NoLines, 1, 0)
      refs == removeNthFromNonDuplicates(st.refs, st)
      cleanedLines == [i \in 1..Len(st.lines) |-> cleanLine(st.lines[i], refs, st)]
      snapshot == IF opts.compact THEN compactTree(cleanedLines) ELSE cleanedLines
  IN IF st.overflow THEN RangeError
     ELSE [snapshot |-> orEmpty(snapshot), refs |-> refs, done |-> TRUE,
           threw |-> FALSE]

\* formatAXTree were traverse not to be told of the interactive filter.
formatAXTreeExpanding(ns, opts) ==
  IF ~ns[1].present
  THEN [snapshot |-> <<Placeholder>>, refs |-> <<>>, done |-> TRUE, threw |-> FALSE]
  ELSE
  LET st == traverse(ns, [opts EXCEPT !.interactive = FALSE], NoLines, 1, 0)
      refs == removeNthFromNonDuplicates(st.refs, st)
      cleanedLines == [i \in 1..Len(st.lines) |-> cleanLine(st.lines[i], refs, st)]
      snapshot == IF opts.compact THEN compactTree(cleanedLines) ELSE cleanedLines
  IN IF st.overflow THEN RangeError
     ELSE [snapshot |-> orEmpty(snapshot), refs |-> refs, done |-> TRUE,
           threw |-> FALSE]

formatAXTree(ns, opts) ==
  IF ~ns[1].present
  THEN [snapshot |-> <<Placeholder>>, refs |-> <<>>, done |-> TRUE, threw |-> FALSE]
  ELSE
  LET st == traverse(ns, opts, NoLines, 1, 0)
      refs == removeNthFromNonDuplicates(st.refs, st)
      cleanedLines == [i \in 1..Len(st.lines) |-> cleanLine(st.lines[i], refs, st)]
      snapshot == IF opts.compact THEN compactTree(cleanedLines) ELSE cleanedLines
  IN IF st.overflow THEN RangeError
     ELSE [snapshot |-> orEmpty(snapshot), refs |-> refs, done |-> TRUE,
           threw |-> FALSE]

\* ------------------------------------------------- element actions
\* What getRefInfo(tabId, n) returns when called in the current state.
Resolve(tabId, n) ==
  IF Lookup(tabSnapshotRefs[tabId], n) # Null THEN Lookup(tabSnapshotRefs[tabId], n)
  ELSE IF tabSnapshotRefs[tabId] # NoTable THEN Null
  ELSE Lookup(loadInto(tabSnapshotRefs, storage)[tabId], n)

\* Strings of option values, option texts and the value asked for: a word,
\* written in lower case or capitalised, with or without blanks around it.
Strs == [core : {"blue", "red"}, upper : BOOLEAN, pad : BOOLEAN]

\* String.prototype.trim
trimStr(s) == [s EXCEPT !.pad = FALSE]

\* String.prototype.toLowerCase
toLowerCase(s) == [s EXCEPT !.upper = FALSE]

\* The <option> elements of the model: a value without blanks, a capitalised
\* text.
OptionElements ==
  [value : {s \in Strs : ~s.pad}, textContent : {s \in Strs : s.upper}]

RECURSIVE SeqsUpTo(_, _)
SeqsUpTo(S, n) ==
  IF n = 0 THEN {<<>>}
  ELSE LET shorter == SeqsUpTo(S, n - 1)
       IN shorter \cup {Append(q, x) : q \in shorter, x \in S}

OptionLists == SeqsUpTo(OptionElements, MaxOptions)

\* The message every element action throws when getRefInfo returns null.
ErrRefNotFound == "Ref not found. Run snapshot first to get available refs."

NoStr == [core |-> "", upper |-> FALSE, pad |-> FALSE]

\* A page element: present says the instrumentation channel still resolves
\* its backendDOMNodeId; changes counts the change events dispatched on it;
\* selectedIndex is the place of the selected option (0: none).
NoElement ==
  [present |-> FALSE, tagName |-> "", type |-> "", checked |-> FALSE,
   options |-> <<>>, selectedIndex |-> 0, changes |-> 0]
SelectElement(opts) ==
  [NoElement EXCEPT !.present = TRUE, !.tagName = "SELECT",
                    !.type = "select-one", !.options = opts]
InputElement(type, checked) ==
  [NoElement EXCEPT !.present = TRUE, !.tagName = "INPUT",
                    !.type = type, !.checked = checked]

blue == [core |-> "blue", upper |-> FALSE, pad |-> FALSE]
Blue == [core |-> "blue", upper |-> TRUE, pad |-> FALSE]

\* The elements that handle "0" of tab 1 names in the runs of all actions.
ElementKinds ==
  {InputElement("checkbox", c) : c \in BOOLEAN}
    \cup {InputElement("radio", FALSE), InputElement("text", FALSE),
          SelectElement(<<[value |-> blue, textContent |-> Blue]>>)}

NoAct ==
  [fn |-> "none", tab |-> 0, n |-> 0, value |-> NoStr, error |-> "",
   calls |-> 0, was |-> FALSE, selectedValue |-> NoStr, selectedLabel |-> NoStr,
   available |-> <<>>]
NotWaiting ==
  [st |-> "idle", tab |-> 0, n |-> 0, elapsed |-> 0, polls |-> 0,
   maxWait |-> 0, interval |-> 0]

\* The first of the places that pass a test (0: none), as a for ... of loop
\* with break finds it.
FirstIndex(places) ==
  IF places = {} THEN 0
  ELSE CHOOSE i \in places : \A j \in places : i <= j

\* selectFn, lines 569-579: the option the two loops leave in matched.
matchedOf(opts, selectValue) ==
  LET exact == FirstIndex({i \in 1..Len(opts) :
                 \/ opts[i].value = selectValue
                 \/ trimStr(opts[i].textContent) = selectValue})
      lower == toLowerCase(selectValue)
  IN IF exact # 0 THEN exact
     ELSE FirstIndex({i \in 1..Len(opts) :
            \/ toLowerCase(opts[i].value) = lower
            \/ toLowerCase(trimStr(opts[i].textContent)) = lower})

\* selectFn run on the element: the element after it and what it threw or
\* returned. Setting this.value selects the first option that has the value.
selectFn(el, selectValue) ==
  LET matched == matchedOf(el.options, selectValue)
  IN IF el.tagName # "SELECT"
     THEN [el |-> el, out |-> [NoAct EXCEPT !.error = "Element is not a <select> element"]]
     ELSE IF matched = 0
     THEN [el |-> el,
           out |-> [NoAct EXCEPT
                      !.error = "Option not found",
                      !.available =
                         [i \in 1..Len(el.options) |->
                            [value |-> el.options[i].value,
                             label |-> trimStr(el.options[i].textContent)]]]]
     ELSE [el |-> [el EXCEPT
                     !.selectedIndex =
                        FirstIndex({i \in 1..Len(el.options) :
                                      el.options[i].value = el.options[matched].value}),
                     !.changes = @ + 1],
           out |-> [NoAct EXCEPT
                      !.selectedValue = el.options[matched].value,
                      !.selectedLabel = trimStr(el.options[matched].textContent)]]

\* checkElement's function were it to dispatch a change event on every call.
checkFnDispatching(el) ==
  IF el.type # "checkbox" /\ el.type # "radio"
  THEN [el |-> el, out |-> [NoAct EXCEPT !.error = "Element is not a checkbox or radio"]]
  ELSE [el |-> [el EXCEPT !.checked = TRUE, !.changes = @ + 1],
        out |-> [NoAct EXCEPT !.was = el.checked]]

\* The function of checkElement (lines 488-495) run on the element.
checkFn(el) ==
  IF el.type # "checkbox" /\ el.type # "radio"
  THEN [el |-> el, out |-> [NoAct EXCEPT !.error = "Element is not a checkbox or radio"]]
  ELSE LET was == el.checked
       IN [el |-> IF ~was THEN [el EXCEPT !.checked = TRUE, !.changes = @ + 1] ELSE el,
           out |-> [NoAct EXCEPT !.was = was]]

\* The function of uncheckElement (lines 528-535) run on the element.
uncheckFn(el) ==
  IF el.type # "checkbox" /\ el.type # "radio"
  THEN [el |-> el, out |-> [NoAct EXCEPT !.error = "Element is not a checkbox or radio"]]
  ELSE LET was == ~el.checked
       IN [el |-> IF ~was THEN [el EXCEPT !.checked = FALSE, !.changes = @ + 1] ELSE el,
           out |-> [NoAct EXCEPT !.was = was]]

\* The function an element action passes to callFunctionOn, run on the
\* element: scrolling, focusing, clearing and measuring change nothing the
\* model keeps.
bodyOf(fn, el, value) ==
  CASE fn = "select" -> selectFn(el, value)
    [] fn = "check" -> checkFn(el)
    [] fn = "uncheck" -> uncheckFn(el)
    [] OTHER -> [el |-> el, out |-> NoAct]

\* The instrumentation calls an action makes after its function returned:
\* cdp.click, cdp.moveMouse, cdp.insertText, one cdp.pressKey per character.
trailingCalls(fn, value) ==
  CASE fn \in {"click", "hover", "fill"} -> 1
    [] fn = "type" -> Len(value.core) + (IF value.pad THEN 4 ELSE 0)
    [] OTHER -> 0

\* evaluateOnElement(tabId, backendNodeId, fn, args) and getElementCenter:
\* resolveNodeByBackendId, then callFunctionOn; two instrumentation calls,
\* one when the node does not resolve.
evaluateOnElement(fn, el, value) ==
  IF ~el.present
  THEN [el |-> el, out |-> [NoAct EXCEPT !.error = "Failed to resolve node", !.calls = 1]]
  ELSE LET r == bodyOf(fn, el, value)
       IN [el |-> r.el,
           out |-> [r.out EXCEPT
                      !.calls = IF r.out.error = "" THEN 2 + trailingCalls(fn, value)
                                ELSE 2]]

\* The Map after getRefInfo(tabId, ref) has run: loadRefsFromStorage ran when
\* the handle missed and the Map had no table for the tab.
afterGetRefInfo(tabId, refId) ==
  IF Lookup(tabSnapshotRefs[tabId], refId) = Null /\ tabSnapshotRefs[tabId] = NoTable
  THEN loadInto(tabSnapshotRefs, storage)
  ELSE tabSnapshotRefs

\* An element action were it to go on to the element without looking at what
\* getRefInfo returned.
PerformUnchecked(fn, tabId, ref, value) ==
  LET refId == refIdOf(ref)
      r == evaluateOnElement(fn, element, value)
  IN /\ tabSnapshotRefs' = afterGetRefInfo(tabId, refId)
     /\ element' = r.el
     /\ act' = [r.out EXCEPT !.fn = fn, !.tab = tabId, !.n = refId, !.value = value]
     /\ acts' = acts + 1
     /\ UNCHANGED <<storage, boot, cmd, snaps, recorded, warm, reply>>
     /\ UNCHANGED <<waiting, saving, daemonVars, last, fmtVars>>

\* An element action called with a ref: getRefInfo, the throw when it
\* returns null, then the function evaluated on the element that the entry's
\* backendDOMNodeId names.
Perform(fn, tabId, ref, value) ==
  LET refId == refIdOf(ref)
      refInfo == Resolve(tabId, refId)
      r == IF refInfo = Null
           THEN [el |-> element, out |-> [NoAct EXCEPT !.error = ErrRefNotFound]]
           ELSE evaluateOnElement(fn, element, value)
  IN /\ tabSnapshotRefs' = afterGetRefInfo(tabId, refId)
     /\ element' = r.el
     /\ act' = [r.out EXCEPT !.fn = fn, !.tab = tabId, !.n = refId, !.value = value]
     /\ acts' = acts + 1
     /\ UNCHANGED <<storage, boot, cmd, snaps, recorded, warm, reply>>
     /\ UNCHANGED <<waiting, saving, daemonVars, last, fmtVars>>

\* ---------------------------------------------------------------- state
\* The daemon after construction.
InitDaemon ==
  /\ pending = [i \in Ids |-> 0]
  /\ timer = [c \in Calls |-> "none"]
  /\ ttl = [c \in Calls |-> 0]
  /\ call = [c \in Calls |-> NoCall]
  /\ connection = 0
  /\ heartbeatTimer = FALSE
  /\ stream = [k \in Conns |-> "fresh"]
  /\ running = TRUE
  /\ last = NoOp

\* The reference tracker when its module has been loaded.
InitTracker ==
  /\ tabSnapshotRefs = [t \in Tabs |-> NoTable]
  /\ storage = [t \in Tabs |-> NoTable]
  /\ boot = [st |-> "get", got |-> [t \in Tabs |-> NoTable]]
  /\ cmd = Idle
  /\ snaps = 0
  /\ recorded = [t \in Tabs |-> NoTable]
  /\ warm = [t \in Tabs |-> FALSE]
  /\ reply = NoReply
  /\ saving = [t \in Tabs |-> NotSaving]

InitRelay == InitDaemon /\ InitTracker

\* No element action has been called.
NoCallOfAction ==
  /\ element = NoElement
  /\ act = NoAct
  /\ acts = 0
  /\ waiting = NotWaiting

\* No call of formatAXTree has been made.
NoCallOfFormat ==
  /\ options = [interactive |-> FALSE, compact |-> FALSE, limited |-> FALSE,
                maxDepth |-> 0]
  /\ result = NoResult

Init ==
  /\ InitRelay
  /\ nodes = [n \in NodeIds |->
               [present |-> FALSE, ignored |-> FALSE, role |-> "", name |-> "",
                backend |-> FALSE, href |-> FALSE, childIds |-> <<>>]]
  /\ NoCallOfFormat
  /\ NoCallOfAction

\* Requests and ServerResponse objects are numbered in their order of arrival.
\* Identifiers are opaque strings used as Map keys only, so a run is the same
\* under any renaming of them: an identifier in a request body is one issued
\* before or, of those never issued, the lowest-numbered.
IssuedOrNext(id) == \A j \in 1..(id - 1) : \E c \in Calls : call[c].id = j
NextCall(c) == call[c].id = 0 /\ \A b \in 1..(c - 1) : call[b].id # 0
NextConn(k) == stream[k] = "fresh" /\ \A j \in 1..(k - 1) : stream[j] # "fresh"

\* What connection.write may do on the manager's connection: throw or not
\* when the transport is broken, not throw otherwise.
MayThrow ==
  IF connection # 0 /\ stream[connection] = "broken" THEN BOOLEAN ELSE {FALSE}

\* --------------------------------------------------------------- actions
\* POST /command arrives. The identifier is caller-generated (generateId())
\* and is not the identifier of an entry that is still pending.
CommandArrives(n) ==
  \E c \in 1..n, id \in Ids, throws \in MayThrow :
    /\ running
    /\ NextCall(c)
    /\ IssuedOrNext(id)
    /\ pending[id] = 0
    /\ LET d == handleCommand(Cur, c, id, throws)
       IN /\ Becomes(d)
          /\ last' = [NoOp EXCEPT !.op = "command", !.id = id, !.ret = d.ret,
                                   !.out = d.out]

HandleCommand == CommandArrives(MaxCalls)

\* POST /result arrives: any identifier, any payload, at any time.
HandleResult ==
  \E id \in Ids, data \in Data :
    /\ running
    /\ IssuedOrNext(id)
    /\ LET d == handleResult(Cur, id, data)
       IN /\ Becomes(d)
          /\ last' = [NoOp EXCEPT !.op = "result", !.id = id, !.ret = d.ret,
                                   !.data = IF d.ret THEN data ELSE "",
                                   !.status = d.status, !.code = d.code]

\* GET /sse arrives.
HandleSSE ==
  \E k \in 1..DaemonConns :
    /\ running
    /\ NextConn(k)
    /\ Becomes(handleSSE(Cur, k))
    /\ last' = NoOp

\* SIGINT / SIGTERM / POST /shutdown: HttpServer.stop().
Stop ==
  /\ running
  /\ Becomes(stop(Cur))
  /\ last' = NoOp

\* The timer armed by add for call c is due and its callback runs.
TimerFireOf(c) ==
  /\ timer[c] = "armed"
  /\ ttl[c] = 0
  /\ Becomes(timeout([Cur EXCEPT !.timer[c] = "fired"], call[c].id))
  /\ last' = NoOp

TimerFire == \E c \in Calls : TimerFireOf(c)

\* Time passes by one tick (timers may run late, never early).
Tick ==
  /\ \E c \in Calls : IF timer[c] = "armed" /\ ttl[c] > 0 THEN TRUE
                      ELSE call[c].st = "waiting" /\ call[c].waited < COMMAND_TIMEOUT
  /\ ttl' = [c \in Calls |-> IF timer[c] = "armed" /\ ttl[c] > 0
                             THEN ttl[c] - 1 ELSE ttl[c]]
  /\ call' = [c \in Calls |->
               IF call[c].st = "waiting"
               THEN [call[c] EXCEPT !.waited = Min(@ + 1, COMMAND_TIMEOUT)]
               ELSE call[c]]
  /\ last' = NoOp
  /\ UNCHANGED <<pending, timer, connection, heartbeatTimer, stream, running>>
  /\ UNCHANGED <<refVars, extVars>>

\* The setInterval callback of the heartbeat runs.
Heartbeat ==
  \E throws \in MayThrow :
    /\ heartbeatTimer
    /\ LET d == heartbeat(Cur, throws)
       IN /\ Becomes(d)
          /\ last' = [NoOp EXCEPT !.op = "heartbeat", !.ret = d.ret, !.out = d.out]

\* The extension's side of stream k goes away (tab closed, worker suspended).
RemoteClose ==
  \E k \in Conns :
    /\ stream[k] = "open"
    /\ stream' = [stream EXCEPT ![k] = "broken"]
    /\ last' = NoOp
    /\ UNCHANGED <<pending, timer, ttl, call, connection, heartbeatTimer, running>>
    /\ UNCHANGED <<refVars, extVars>>

\* The 'close' event of ServerResponse k is dispatched to the listener that
\* connect registered: () => this.cleanupConnection().
CloseEvent ==
  \E k \in Conns :
    /\ stream[k] \in {"ended", "broken"}
    /\ Becomes(cleanupConnection([Cur EXCEPT !.stream[k] = "closed"]))
    /\ last' = NoOp

Next ==
  \/ HandleCommand
  \/ HandleResult
  \/ HandleSSE
  \/ Stop
  \/ TimerFire
  \/ Tick
  \/ Heartbeat
  \/ RemoteClose
  \/ CloseEvent

Spec == Init /\ [][Next]_vars

\* The daemon under fair scheduling: Node's clock advances and a due timer
\* callback is run.
HandleCommandLive == CommandArrives(LiveCalls)

NextLive ==
  \/ HandleCommandLive
  \/ HandleResult
  \/ HandleSSE
  \/ Stop
  \/ TimerFire
  \/ Tick
  \/ Heartbeat
  \/ RemoteClose
  \/ CloseEvent

LiveSpec == Init /\ [][NextLive]_vars /\ WF_vars(Tick) /\ WF_vars(TimerFire)

\* ------------------------- the daemon with identifiers chosen by the client
\* POST /command arrives with whatever identifier its body carries:
\* handleCommand passes request.id to add without looking at the table.
HandleCommandAnyId ==
  \E c \in Calls, id \in Ids, throws \in MayThrow :
    /\ running
    /\ NextCall(c)
    /\ IssuedOrNext(id)
    /\ LET d == handleCommand(Cur, c, id, throws)
       IN /\ Becomes(d)
          /\ last' = [NoOp EXCEPT !.op = "command", !.id = id, !.ret = d.ret,
                                   !.out = d.out]

NextReuse ==
  \/ HandleCommandAnyId
  \/ HandleResult
  \/ HandleSSE
  \/ Stop
  \/ TimerFire
  \/ Tick
  \/ Heartbeat
  \/ RemoteClose
  \/ CloseEvent

SpecReuse == Init /\ [][NextReuse]_vars

\* --------------------------------------- SSEManager driven through its API
\* The exported class on its own: connect, disconnect and sendCommand called
\* in any order, between the heartbeat and the 'close' events.
ConnectCall ==
  \E k \in Conns :
    /\ NextConn(k)
    /\ Becomes(connect(Cur, k))
    /\ last' = [NoOp EXCEPT !.op = "connect", !.out = k]

DisconnectCall ==
  /\ Becomes(disconnect(Cur))
  /\ last' = [NoOp EXCEPT !.op = "disconnect"]

SendCommandCall ==
  \E throws \in MayThrow :
    LET d == sendCommand(Cur, throws)
    IN /\ Becomes(d)
       /\ last' = [NoOp EXCEPT !.op = "send", !.ret = d.ret, !.out = d.out]

NextSSE ==
  \/ ConnectCall
  \/ DisconnectCall
  \/ SendCommandCall
  \/ Heartbeat
  \/ RemoteClose
  \/ CloseEvent

SpecSSE == Init /\ [][NextSSE]_vars

\* ------------------------------ the daemon with bodies that are no request
BadCommand ==
  \E body \in BadBodies :
    /\ running
    /\ LET d == handleCommandBadBody(Cur, body)
       IN /\ Becomes(d)
          /\ last' = [NoOp EXCEPT !.op = "badcommand", !.data = body,
                                   !.out = d.out, !.status = d.status]

BadResult ==
  \E body \in BadBodies :
    /\ running
    /\ LET d == handleResultBadBody(Cur, body)
       IN /\ Becomes(d)
          /\ last' = [NoOp EXCEPT !.op = "badresult", !.data = body,
                                   !.out = d.out, !.status = d.status,
                                   !.code = d.code]

NextRaw ==
  \/ Next
  \/ BadCommand
  \/ BadResult

SpecRaw == Init /\ [][NextRaw]_vars

\* ----------------------------------- the extension's reference tracker
\* The tracker's functions are called one at a time (a command is replied to
\* before the next begins); only the load started at module load runs beside
\* them. Each action below runs from one await to the next.

\* Tabs are interchangeable: a tab no snapshot was taken of yet is used only
\* when every tab before it has been used, so that behaviours differing only
\* in the naming of the tabs are explored once.
UsedOrNext(tabId) ==
  \A u \in Tabs :
    u < tabId => (storage[u] # NoTable \/ tabSnapshotRefs[u] # NoTable)

\* getSnapshot, line 193: the converted refs are set in the Map; line 194
\* calls saveRefsToStorage, which issues storage.get and suspends.
GetSnapshotSet ==
  \E tabId \in Tabs, size \in 0..MaxRefs :
    /\ cmd = Idle
    /\ snaps < MaxSnaps
    /\ UsedOrNext(tabId)
    /\ LET convertedRefs == [gen |-> snaps + 1, size |-> size]
       IN /\ tabSnapshotRefs' = [tabSnapshotRefs EXCEPT ![tabId] = convertedRefs]
          /\ cmd' = [Idle EXCEPT !.op = "getSnapshot", !.tab = tabId,
                                 !.refs = convertedRefs]
    /\ snaps' = snaps + 1
    /\ reply' = NoReply
    /\ UNCHANGED <<storage, boot, recorded, warm>>
    /\ UNCHANGED <<daemonVars, last, extVars>>

\* saveRefsToStorage, lines 81-84: the stored object is read, the tab's
\* property replaced and the object written back; getSnapshot returns.
GetSnapshotSaved ==
  /\ cmd.op = "getSnapshot"
  /\ storage' = saveInto(storage, cmd.tab, cmd.refs)
  /\ cmd' = Idle
  /\ recorded' = [recorded EXCEPT ![cmd.tab] = cmd.refs]
  /\ warm' = [warm EXCEPT ![cmd.tab] = TRUE]
  /\ reply' = [NoReply EXCEPT !.op = "getSnapshot", !.tab = cmd.tab]
  /\ UNCHANGED <<tabSnapshotRefs, boot, snaps>>
  /\ UNCHANGED <<daemonVars, last, extVars>>

\* A selector-scoped getSnapshot were it to empty the tab's table before it
\* throws.
GetSnapshotNoMatchClearing ==
  \E tabId \in Tabs :
    /\ cmd = Idle
    /\ UsedOrNext(tabId)
    /\ tabSnapshotRefs' = [tabSnapshotRefs EXCEPT ![tabId] = NoTable]
    /\ reply' = [NoReply EXCEPT !.op = "selectorNotFound", !.tab = tabId]
    /\ UNCHANGED <<storage, boot, cmd, snaps, recorded, warm>>
    /\ UNCHANGED <<daemonVars, last, extVars>>

\* getSnapshot with options.selector, lines 151-160, when querySelector
\* finds no node: 'Selector "..." not found' is thrown and rethrown as
\* 'Selector "..." failed: ...'. The calls awaited before the throw (154-155)
\* read the page only.
GetSnapshotNoMatch ==
  \E tabId \in Tabs :
    /\ cmd = Idle
    /\ UsedOrNext(tabId)
    /\ reply' = [NoReply EXCEPT !.op = "selectorNotFound", !.tab = tabId]
    /\ UNCHANGED <<tabSnapshotRefs, storage, boot, cmd, snaps, recorded, warm>>
    /\ UNCHANGED <<daemonVars, last, extVars>>

\* Mutant of GetRefInfo: every miss calls loadRefsFromStorage, whether or not
\* the Map has a table for the tab.
GetRefInfoEager ==
  \E tabId \in Tabs, ref \in Refs :
    /\ cmd = Idle
    /\ UsedOrNext(tabId)
    /\ LET refId == refIdOf(ref)
           refs == tabSnapshotRefs[tabId]
       IN IF Lookup(refs, refId) # Null
          THEN /\ reply' = [NoReply EXCEPT !.op = "getRefInfo", !.tab = tabId,
                                           !.n = refId, !.ret = Lookup(refs, refId)]
               /\ cmd' = cmd
          ELSE /\ reply' = NoReply
               /\ cmd' = [Idle EXCEPT !.op = "getRefInfo", !.tab = tabId,
                                      !.refId = refId]
    /\ UNCHANGED <<tabSnapshotRefs, storage, boot, snaps, recorded, warm>>
    /\ UNCHANGED <<daemonVars, last, extVars>>

\* getRefInfo, lines 280-287: a hit in the Map returns the entry; a miss on
\* a tab the Map has returns null; a miss on a tab the Map lacks calls
\* loadRefsFromStorage and suspends.
GetRefInfo ==
  \E tabId \in Tabs, ref \in Refs :
    /\ cmd = Idle
    /\ UsedOrNext(tabId)
    /\ LET refId == refIdOf(ref)
           refs == tabSnapshotRefs[tabId]
       IN IF Lookup(refs, refId) # Null
          THEN /\ reply' = [NoReply EXCEPT !.op = "getRefInfo", !.tab = tabId,
                                           !.n = refId, !.ret = Lookup(refs, refId)]
               /\ cmd' = cmd
          ELSE IF tabSnapshotRefs[tabId] # NoTable
          THEN /\ reply' = [NoReply EXCEPT !.op = "getRefInfo", !.tab = tabId,
                                           !.n = refId]
               /\ cmd' = cmd
          ELSE /\ reply' = NoReply
               /\ cmd' = [Idle EXCEPT !.op = "getRefInfo", !.tab = tabId,
                                      !.refId = refId]
    /\ UNCHANGED <<tabSnapshotRefs, storage, boot, snaps, recorded, warm>>
    /\ UNCHANGED <<daemonVars, last, extVars>>

\* getRefInfo, lines 287-292: loadRefsFromStorage has set the stored tables
\* in the Map; the entry is looked up once more.
GetRefInfoLoaded ==
  /\ cmd.op = "getRefInfo"
  /\ LET mem == loadInto(tabSnapshotRefs, storage)
         loaded == mem[cmd.tab]
     IN /\ tabSnapshotRefs' = mem
        /\ reply' = [NoReply EXCEPT !.op = "getRefInfo", !.tab = cmd.tab,
                                    !.n = cmd.refId,
                                    !.ret = Lookup(loaded, cmd.refId),
                                    !.loads = 1]
  /\ cmd' = Idle
  /\ UNCHANGED <<storage, boot, snaps, recorded, warm>>
  /\ UNCHANGED <<daemonVars, last, extVars>>

\* cleanupTab(tabId): the Map entry is deleted.
CleanupTab ==
  \E tabId \in Tabs :
    /\ cmd = Idle
    /\ UsedOrNext(tabId)
    /\ tabSnapshotRefs' = [tabSnapshotRefs EXCEPT ![tabId] = NoTable]
    /\ recorded' = [recorded EXCEPT ![tabId] = NoTable]
    /\ warm' = [warm EXCEPT ![tabId] = FALSE]
    /\ reply' = [NoReply EXCEPT !.op = "cleanupTab", !.tab = tabId]
    /\ UNCHANGED <<storage, boot, cmd, snaps>>
    /\ UNCHANGED <<daemonVars, last, extVars>>

\* The idle service worker is suspended and later started again: the module
\* is loaded anew (empty Map, line 57) and line 91 calls loadRefsFromStorage.
Suspend ==
  /\ cmd = Idle
  /\ tabSnapshotRefs' = [t \in Tabs |-> NoTable]
  /\ boot' = [st |-> "get", got |-> [t \in Tabs |-> NoTable]]
  /\ warm' = [t \in Tabs |-> FALSE]
  /\ reply' = [NoReply EXCEPT !.op = "suspend"]
  /\ UNCHANGED <<storage, cmd, snaps, recorded>>
  /\ UNCHANGED <<daemonVars, last, extVars>>

\* The storage.get of the load started at line 91 is served (line 65).
BootRead ==
  /\ boot.st = "get"
  /\ boot' = [st |-> "got", got |-> storage]
  /\ reply' = NoReply
  /\ UNCHANGED <<tabSnapshotRefs, storage, cmd, snaps, recorded, warm>>
  /\ UNCHANGED <<daemonVars, last, extVars>>

\* Its continuation runs (lines 66-71).
BootApply ==
  /\ boot.st = "got"
  /\ tabSnapshotRefs' = loadInto(tabSnapshotRefs, boot.got)
  /\ boot' = [st |-> "done", got |-> [t \in Tabs |-> NoTable]]
  /\ reply' = NoReply
  /\ UNCHANGED <<storage, cmd, snaps, recorded, warm>>
  /\ UNCHANGED <<daemonVars, last, extVars>>

NextRefs ==
  \/ GetSnapshotSet
  \/ GetSnapshotSaved
  \/ GetRefInfo
  \/ GetRefInfoLoaded
  \/ CleanupTab
  \/ Suspend
  \/ BootRead
  \/ BootApply

SpecRefs == Init /\ [][NextRefs]_vars

\* Snapshots, whole-page and selector-scoped, beside the load made at module
\* load.
NextScoped ==
  \/ GetSnapshotSet
  \/ GetSnapshotSaved
  \/ GetSnapshotNoMatch
  \/ CleanupTab
  \/ Suspend
  \/ BootRead
  \/ BootApply

SpecScoped == Init /\ [][NextScoped]_vars

\* ------------------------------- snapshots of two tabs side by side
\* getSnapshot calls for different tabs in flight together, as when the
\* snapshot command for one tab is handled while the one for another tab
\* is suspended at an await: each action runs one call from one await to
\* the next.

\* getSnapshot(tabId), line 193: the converted refs are set in the Map; line
\* 194 calls saveRefsToStorage, which issues storage.get (line 81).
SnapshotSet ==
  \E tabId \in Tabs, size \in 1..MaxRefs :
    /\ cmd = Idle
    /\ saving[tabId] = NotSaving
    /\ snaps < MaxSnaps
    /\ UsedOrNext(tabId)
    /\ LET convertedRefs == [gen |-> snaps + 1, size |-> size]
       IN /\ tabSnapshotRefs' = [tabSnapshotRefs EXCEPT ![tabId] = convertedRefs]
          /\ saving' = [saving EXCEPT ![tabId] =
                          [st |-> "get", refs |-> convertedRefs, stored |-> <<>>]]
    /\ snaps' = snaps + 1
    /\ reply' = NoReply
    /\ UNCHANGED <<storage, boot, cmd, recorded, warm>>
    /\ UNCHANGED <<daemonVars, last, fmtVars, domVars>>

\* saveRefsToStorage, lines 81-84: storage.get is served, the tab's
\* property is set on the object read and storage.set is issued with it.
SaveRead ==
  \E tabId \in Tabs :
    /\ saving[tabId].st = "get"
    /\ saving' = [saving EXCEPT ![tabId] =
                    [@ EXCEPT !.st = "set",
                              !.stored = saveInto(storage, tabId, saving[tabId].refs)]]
    /\ reply' = NoReply
    /\ UNCHANGED <<tabSnapshotRefs, storage, boot, cmd, snaps, recorded, warm>>
    /\ UNCHANGED <<daemonVars, last, fmtVars, domVars>>

\* saveRefsToStorage, line 84: storage.set is served, and getSnapshot
\* returns.
SaveWritten ==
  \E tabId \in Tabs :
    /\ saving[tabId].st = "set"
    /\ storage' = saving[tabId].stored
    /\ saving' = [saving EXCEPT ![tabId] = NotSaving]
    /\ recorded' = [recorded EXCEPT ![tabId] = saving[tabId].refs]
    /\ warm' = [warm EXCEPT ![tabId] = TRUE]
    /\ reply' = [NoReply EXCEPT !.op = "getSnapshot", !.tab = tabId]
    /\ UNCHANGED <<tabSnapshotRefs, boot, cmd, snaps>>
    /\ UNCHANGED <<daemonVars, last, fmtVars, domVars>>

NextSaves ==
  \/ SnapshotSet
  \/ SaveRead
  \/ SaveWritten
  \/ BootRead
  \/ BootApply

SpecSaves == Init /\ [][NextSaves]_vars

\* ------------------------------------------- formatAXTree on every tree
InitFmt ==
  /\ InitRelay
  /\ nodes \in Trees
  /\ NoCallOfFormat
  /\ NoCallOfAction

\* formatAXTree(nodes, urlMap, options) is called and returns.
Format ==
  \E o \in Options :
    /\ ~result.done
    /\ options' = o
    /\ result' = formatAXTree(nodes, o)
    /\ UNCHANGED <<nodes, daemonVars, last, refVars, domVars, saving>>

NextFmt == Format

SpecFmt == InitFmt /\ [][NextFmt]_vars

\* formatAXTree on node lists that are no trees.
InitGraph ==
  /\ InitRelay
  /\ nodes \in Graphs
  /\ NoCallOfFormat
  /\ NoCallOfAction

SpecGraph == InitGraph /\ [][NextFmt]_vars

\* --------------------------------------- selectOption on every option list
\* The tracker after getSnapshot of tab 1 has completed with the given number
\* of handles, the load made at module load being over.
Snapshotted(size) ==
  LET table == [t \in Tabs |-> IF t = 1 THEN [gen |-> 1, size |-> size] ELSE NoTable]
  IN /\ tabSnapshotRefs = table
     /\ storage = table
     /\ recorded = table
     /\ boot = [st |-> "done", got |-> [t \in Tabs |-> NoTable]]
     /\ cmd = Idle
     /\ snaps = 1
     /\ warm = [t \in Tabs |-> t = 1]
     /\ reply = NoReply
     /\ saving = [t \in Tabs |-> NotSaving]

InitSelect ==
  /\ InitDaemon
  /\ Snapshotted(1)
  /\ NoCallOfFormat
  /\ nodes = [n \in NodeIds |->
               [present |-> FALSE, ignored |-> FALSE, role |-> "", name |-> "",
                backend |-> FALSE, href |-> FALSE, childIds |-> <<>>]]
  /\ element \in {SelectElement(opts) : opts \in OptionLists}
  /\ act = NoAct
  /\ acts = 0
  /\ waiting = NotWaiting

\* selectOption(1, "0", value)
SelectFromList ==
  \E value \in Strs :
    /\ acts < MaxSelects
    /\ Perform("select", 1, [at |-> FALSE, n |-> 0], value)

NextSelect == SelectFromList

\* ------------------------------------------- every action, on every handle
\* The client sends one command and waits for its result before it sends the
\* next: no action is called while a waitForElement is polling. Tabs are
\* interchangeable, as for the tracker's own functions.
OneAtATime(tabId) ==
  /\ acts < MaxActs
  /\ waiting.st # "polling"
  /\ UsedOrNext(tabId)

\* The handles given to the actions: one a snapshot of one element has and
\* one no snapshot of it has, each written with and without "@".
Handles == {ref \in Refs : ref.n <= 1}

InitDom ==
  /\ InitDaemon
  /\ \E size \in 0..1 : Snapshotted(size)
  /\ NoCallOfFormat
  /\ nodes = [n \in NodeIds |->
               [present |-> FALSE, ignored |-> FALSE, role |-> "", name |-> "",
                backend |-> FALSE, href |-> FALSE, childIds |-> <<>>]]
  /\ element \in ElementKinds
  /\ act = NoAct
  /\ acts = 0
  /\ waiting = NotWaiting

ClickElement ==
  \E tabId \in Tabs, ref \in Handles :
    OneAtATime(tabId) /\ Perform("click", tabId, ref, NoStr)

HoverElement ==
  \E tabId \in Tabs, ref \in Handles :
    OneAtATime(tabId) /\ Perform("hover", tabId, ref, NoStr)

FillElement ==
  \E tabId \in Tabs, ref \in Handles, text \in {blue, Blue} :
    OneAtATime(tabId) /\ Perform("fill", tabId, ref, text)

TypeElement ==
  \E tabId \in Tabs, ref \in Handles, text \in {blue, Blue} :
    OneAtATime(tabId) /\ Perform("type", tabId, ref, text)

GetElementText ==
  \E tabId \in Tabs, ref \in Handles :
    OneAtATime(tabId) /\ Perform("getText", tabId, ref, NoStr)

CheckElement ==
  \E tabId \in Tabs, ref \in Handles :
    OneAtATime(tabId) /\ Perform("check", tabId, ref, NoStr)

UncheckElement ==
  \E tabId \in Tabs, ref \in Handles :
    OneAtATime(tabId) /\ Perform("uncheck", tabId, ref, NoStr)

SelectOption ==
  \E tabId \in Tabs, ref \in Handles, value \in {blue, Blue} :
    OneAtATime(tabId) /\ Perform("select", tabId, ref, value)

\* waitForElement(tabId, ref, maxWait, interval) up to its first poll: the
\* throw when getRefInfo returns null, the timeout thrown at once when the
\* loop condition is false at entry.
WaitForElement ==
  \E tabId \in Tabs, ref \in Handles, maxWait \in 0..MaxWaitMs, interval \in 0..MaxInterval :
    LET refId == refIdOf(ref)
        refInfo == Resolve(tabId, refId)
        called == [NoAct EXCEPT !.fn = "waitFor", !.tab = tabId, !.n = refId]
        entered == [NotWaiting EXCEPT !.tab = tabId, !.n = refId,
                                      !.maxWait = maxWait, !.interval = interval]
    IN /\ OneAtATime(tabId)
       /\ tabSnapshotRefs' = afterGetRefInfo(tabId, refId)
       /\ acts' = acts + 1
       /\ IF refInfo = Null
          THEN /\ act' = [called EXCEPT !.error = ErrRefNotFound]
               /\ waiting' = NotWaiting
          ELSE IF 0 < maxWait
          THEN /\ act' = called
               /\ waiting' = [entered EXCEPT !.st = "polling"]
          ELSE /\ act' = [called EXCEPT !.error = "Timeout waiting for element"]
               /\ waiting' = NotWaiting
       /\ UNCHANGED <<storage, boot, cmd, snaps, recorded, warm, reply>>
       /\ UNCHANGED <<element, saving, daemonVars, last, fmtVars>>

\* One turn of the loop of waitForElement (lines 624-645): the node is
\* resolved and the call returns (was: the element was found), or the
\* interval is slept, added to elapsed, and the timeout thrown when the loop
\* condition has become false.
\* polls counts the turns up to MaxWaitMs + 1; later turns are not told apart.
WaitPoll ==
  LET polled == [waiting EXCEPT !.polls = IF @ <= MaxWaitMs THEN @ + 1 ELSE @]
      slept == [polled EXCEPT !.elapsed = @ + waiting.interval]
      called == [NoAct EXCEPT !.fn = "poll", !.tab = waiting.tab, !.n = waiting.n,
                              !.calls = 1]
  IN /\ waiting.st = "polling"
     /\ IF element.present
        THEN /\ waiting' = NotWaiting
             /\ act' = [called EXCEPT !.was = TRUE]
        ELSE IF slept.elapsed < waiting.maxWait
        THEN /\ waiting' = slept
             /\ act' = called
        ELSE /\ waiting' = NotWaiting
             /\ act' = [called EXCEPT !.error = "Timeout waiting for element"]
     /\ UNCHANGED <<element, acts, saving, refVars, daemonVars, last, fmtVars>>

\* The page removes the element from the document or puts it back.
PageChange ==
  /\ element' = [element EXCEPT !.present = ~@]
  /\ UNCHANGED <<act, acts, waiting, saving, refVars, daemonVars, last, fmtVars>>

NextDom ==
  \/ ClickElement
  \/ HoverElement
  \/ FillElement
  \/ TypeElement
  \/ GetElementText
  \/ CheckElement
  \/ UncheckElement
  \/ SelectOption
  \/ WaitForElement
  \/ WaitPoll
  \/ PageChange
  \/ CleanupTab

SpecDom == InitDom /\ [][NextDom]_vars

\* waitForElement alone: the event loop runs the continuation of a sleep
\* that is pending, so a wait that polls goes on polling.
NextWait ==
  \/ WaitForElement
  \/ WaitPoll
  \/ PageChange

SpecWait == InitDom /\ [][NextWait]_vars /\ WF_vars(WaitPoll)

SpecSelect == InitSelect /\ [][NextSelect]_vars

\* ================================================================ claims
Accepted(c) == call[c].promise # "none"
Waiting(c) == call[c].st = "waiting"
Done(c) == call[c].st = "done"
Others == <<pending, timer, ttl, call, connection, heartbeatTimer, stream, running>>

\* The four ways an accepted command is answered.
AnsweredResult(c) ==
  /\ call[c].status = 200 /\ call[c].rid = call[c].id
  /\ call[c].data \in Data /\ call[c].error = ""
AnsweredTimeout(c) ==
  call[c].status = 408 /\ call[c].error = ErrTimeout /\ call[c].rid = call[c].id
AnsweredShutdown(c) ==
  call[c].status = 408 /\ call[c].error = ErrShutdown /\ call[c].rid = call[c].id
AnsweredSendFailed(c) ==
  call[c].status = 503 /\ call[c].error = ErrSendFailed /\ call[c].rid = call[c].id

\* C1: every command registered in the pending table gets exactly one Command
\* Result. Never two: at most one response is written per call and an answered
\* call is never touched again. Never none: while its caller waits, the entry
\* and the armed timer that add created for it exist, time can pass, and once
\* the timer is due its callback answers the caller; the one response is the
\* posted result or a timeout, delivery-failure or shutdown error.
C1_OneResultState ==
  \A c \in Calls :
    /\ call[c].nres <= 1
    /\ Accepted(c) =>
         \/ /\ Waiting(c) /\ call[c].nres = 0
            /\ pending[call[c].id] = c /\ timer[c] = "armed"
            /\ IF ttl[c] > 0 THEN ENABLED Tick
               ELSE ENABLED (TimerFireOf(c) /\ call'[c].st = "done"
                             /\ call'[c].nres = 1)
         \/ /\ Done(c) /\ call[c].nres = 1
            /\ \/ AnsweredResult(c) \/ AnsweredTimeout(c)
               \/ AnsweredShutdown(c) \/ AnsweredSendFailed(c)

C2_ResolveOnce ==
  /\ [][last'.op = "result" =>
          /\ last'.ret = (pending[last'.id] # 0)
          /\ pending'[last'.id] = 0]_vars
  /\ [](\A c \in Calls : Done(c) => pending[call[c].id] # c)

C2_Witness ==
  /\ last.op = "result" /\ ~last.ret
  /\ \E c \in Calls : call[c].id = last.id /\ Done(c) /\ AnsweredResult(c)

C4_RefusedWhenDisconnected ==
  /\ [][\A c \in Calls :
          (call[c].id = 0 /\ call'[c].id # 0 /\ ~isConnected(Cur)) =>
            /\ call'[c].st = "done" /\ call'[c].nres = 1
            /\ call'[c].status = 503 /\ call'[c].error = ErrNotConnected
            /\ call'[c].rid = call'[c].id /\ call'[c].promise = "none"
            /\ pending' = pending /\ timer' = timer /\ ttl' = ttl
            /\ last'.out = 0
            /\ UNCHANGED <<connection, heartbeatTimer, stream>>]_vars
  /\ [][\A c \in Calls :
          call[c].error = ErrNotConnected =>
            call'[c] = call[c] /\ timer'[c] = "none"
            /\ \A i \in Ids : pending'[i] = c => pending[i] = c]_vars

C4_Witness ==
  /\ isConnected(Cur)
  /\ \E c \in Calls : Done(c) /\ call[c].error = ErrNotConnected
  /\ \E c \in Calls : Waiting(c)

C7_ResultToItsCaller ==
  [][(last'.op = "result" /\ last'.ret) =>
       LET c == pending[last'.id] IN
         /\ c # 0 /\ call[c].id = last'.id /\ Waiting(c)
         /\ call'[c].st = "done" /\ call'[c].nres = 1 /\ call'[c].status = 200
         /\ call'[c].rid = last'.id /\ call'[c].data = last'.data
         /\ call'[c].error = ""
         /\ \A c2 \in Calls \ {c} : call'[c2] = call[c2] /\ timer'[c2] = timer[c2]
                                     /\ ttl'[c2] = ttl[c2]
         /\ \A i \in Ids \ {last'.id} : pending'[i] = pending[i]]_vars

\* The later of two pending commands is answered first; the earlier one waits on.
C7_Witness ==
  /\ last.op = "result" /\ last.ret
  /\ \E c1, c2 \in Calls :
       /\ c1 < c2 /\ Waiting(c1) /\ pending[call[c1].id] = c1
       /\ Done(c2) /\ AnsweredResult(c2) /\ call[c2].rid = last.id
       /\ call[c2].data = last.data

C10_SendWhenDisconnected ==
  [][(last'.op = "send" /\ ~isConnected(Cur)) =>
       ~last'.ret /\ last'.out = 0 /\ UNCHANGED Others]_vars

C10_Witness ==
  /\ last.op = "send" /\ ~last.ret /\ last.out = 0
  /\ connection = 0
  /\ \E k \in Conns : stream[k] \in {"ended", "closed"}

\* C6: at every moment at most one push connection is live (an open stream);
\* right after a connect the live one is the stream just connected, the
\* manager holds it and reports connected.
C6_AtMostOneLive ==
  /\ Cardinality({k \in Conns : stream[k] = "open"}) <= 1
  /\ last.op = "connect" =>
       /\ isConnected(Cur) /\ connection = last.out
       /\ \A k \in Conns : stream[k] = "open" <=> k = last.out

\* C9: an explicit disconnect, a failed write (of a heartbeat or of a command
\* event) and the close of the manager's stream each leave the manager
\* disconnected, and a command posted to a disconnected manager is refused
\* as not connected.
C9_DisconnectEvents ==
  [][/\ (running /\ ~running') => ~isConnected(Cur)'
     /\ (last'.op \in {"heartbeat", "command"} /\ isConnected(Cur) /\ ~last'.ret)
          => ~isConnected(Cur)'
     /\ \A k \in Conns :
          (connection = k /\ stream[k] # "closed" /\ stream'[k] = "closed")
            => ~isConnected(Cur)'
     /\ \A c \in Calls :
          (call[c].id = 0 /\ call'[c].id # 0 /\ ~isConnected(Cur))
            => call'[c].error = ErrNotConnected]_vars

\* C11: every result posting is answered 200 with code 0 exactly when its
\* identifier matched a pending entry and code 1 otherwise; an unmatched
\* posting changes neither the pending table, its timers and callers, nor
\* the push channel, and writes nothing to it.
C11_ResultEnvelope ==
  [][last'.op = "result" =>
       /\ last'.status = 200 /\ last'.code \in {0, 1}
       /\ last'.code = 0 <=> pending[last'.id] # 0
       /\ last'.code = 1 => last'.out = 0 /\ UNCHANGED Others]_vars

\* A posting for an identifier never issued, answered 1 while a command waits.
C11_Witness ==
  /\ last.op = "result" /\ last.status = 200 /\ last.code = 1
  /\ \A c \in Calls : call[c].id # last.id
  /\ \E c \in Calls : Waiting(c) /\ pending[call[c].id] = c
  /\ isConnected(Cur)

\* C12: the heartbeat interval runs exactly while the manager holds a
\* connection, which is exactly while it reports connected; while connected a
\* heartbeat tick can always run and writes a ping to the manager's stream;
\* a tick whose write fails writes nothing, leaves the manager disconnected
\* and the interval stopped, so no tick runs until the next connect.
C12_Heartbeat ==
  /\ [](/\ heartbeatTimer <=> connection # 0
        /\ heartbeatTimer <=> isConnected(Cur)
        /\ isConnected(Cur) => ENABLED Heartbeat)
  /\ [][last'.op = "heartbeat" =>
          /\ isConnected(Cur) /\ heartbeatTimer
          /\ UNCHANGED stream
          /\ IF last'.ret
             THEN last'.out = connection /\ UNCHANGED <<connection, heartbeatTimer>>
             ELSE /\ last'.out = 0 /\ connection' = 0 /\ ~heartbeatTimer'
                  /\ ~isConnected(Cur)']_vars

\* The ping on a reconnected manager's stream failed.
C12_Witness ==
  /\ last.op = "heartbeat" /\ ~last.ret /\ last.out = 0
  /\ connection = 0 /\ ~heartbeatTimer
  /\ \E k \in Conns : k > 1 /\ stream[k] = "broken"

\* C13: the step that shuts the daemon down rejects every entry pending at
\* that moment once, with "Daemon shutting down" (its caller is answered
\* once, its timer is cancelled), leaves the pending table empty and the
\* push channel disconnected: the manager holds no connection and no stream
\* to the extension is left open; a cancelled timer stays cancelled.
C13_Shutdown ==
  /\ [][(running /\ ~running') =>
          /\ \A c \in Calls :
               IF call[c].promise = "pending"
               THEN /\ call'[c].promise = "rejected" /\ call'[c].settles = 1
                    /\ call'[c].st = "done" /\ call'[c].nres = 1
                    /\ call'[c].error = ErrShutdown /\ call'[c].rid = call[c].id
                    /\ timer[c] = "armed" /\ timer'[c] = "cleared"
               ELSE call'[c] = call[c] /\ timer'[c] = timer[c]
          /\ \A i \in Ids : pending'[i] = 0
          /\ connection' = 0 /\ ~heartbeatTimer' /\ ~isConnected(Cur)'
          /\ \A k \in Conns : stream'[k] # "open"]_vars
  /\ [][\A c \in Calls : timer[c] = "cleared" => timer'[c] = "cleared"]_vars

\* C14: a POST /command answered 408 timed out (it was accepted and its timer
\* fired with no result posted), one answered 503 was refused as not connected
\* or could not be delivered, and one whose result was posted while it waited
\* is answered 200 with that result.
C14_StatusMeaning ==
  \A c \in Calls :
    Done(c) =>
      /\ call[c].status \in {200, 408, 503}
      /\ call[c].status = 408 =>
           call[c].error = ErrTimeout /\ timer[c] = "fired" /\ Accepted(c)
      /\ call[c].status = 503 =>
           \/ call[c].error = ErrNotConnected /\ ~Accepted(c)
           \/ call[c].error = ErrSendFailed /\ Accepted(c)
      /\ call[c].status = 200 <=> AnsweredResult(c)

\* C15: a command request or result posting whose body cannot be decoded
\* (JSON.parse throws) is answered with an error status (400) and nothing else
\* happens: the pending table, its timers, the callers and the push channel
\* are as before, and nothing is written to the extension's stream.
C15_BadBodyNoEffect ==
  [][(last'.op \in {"badcommand", "badresult"} /\ last'.data = "unparsable") =>
       /\ last'.status = 400
       /\ last'.out = 0
       /\ UNCHANGED Others]_vars

\* An undecodable command arrived while the extension was connected and
\* another command was waiting.
C15_Witness ==
  /\ last.op = "badcommand" /\ last.data = "unparsable" /\ last.status = 400
  /\ isConnected(Cur)
  /\ \E c \in Calls : Waiting(c) /\ pending[call[c].id] = c /\ timer[c] = "armed"

\* A reply of getRefInfo, and the tab and handle it was asked about.
Resolved == reply.op = "getRefInfo"

\* C16: after a snapshot of a tab has been recorded in this process, and until
\* the tab is forgotten or the process suspended, getRefInfo returns the entry
\* of the recorded table for a handle the table has and null for a handle it
\* lacks, and never loads from storage.
C16_ResolveAfterRecord ==
  [][reply'.op = "getRefInfo" /\ warm[reply'.tab]
       => /\ reply'.ret = Lookup(recorded[reply'.tab], reply'.n)
          /\ reply'.loads = 0]_vars

\* C17: from cleanupTab of a tab until the next snapshot of that tab is
\* recorded, getRefInfo returns null for every handle of the tab.
C17_ForgetDrops ==
  [][reply'.op = "getRefInfo" /\ recorded[reply'.tab] = NoTable
       => reply'.ret = Null]_vars

C19_OneReloadOnColdMiss ==
  [][/\ (reply'.op = "getRefInfo" /\ reply'.ret = Null)
          => IF cmd = Idle
             THEN tabSnapshotRefs[reply'.tab] # NoTable /\ reply'.loads = 0
             ELSE reply'.loads = 1
     /\ (cmd = Idle /\ cmd'.op = "getRefInfo")
          => tabSnapshotRefs[cmd'.tab] = NoTable]_vars

C19_Witness ==
  /\ Resolved
  /\ reply.ret = Null
  /\ reply.loads = 1
  /\ storage[reply.tab] # NoTable

\* C20: when getSnapshot of a tab completes, the tab's table in the Map and
\* the tab's table in storage are both exactly the table of that snapshot.
C20_ReplacedInFull ==
  [][reply'.op = "getSnapshot"
       => /\ tabSnapshotRefs'[reply'.tab] = cmd.refs
          /\ storage'[reply'.tab] = cmd.refs]_vars

\* A step of getSnapshot, getRefInfo or cleanupTab, and the tab it is about.
TrackerStep == cmd' # cmd \/ reply'.op \in {"getSnapshot", "getRefInfo", "cleanupTab"}
StepTab == IF cmd' # Idle THEN cmd'.tab ELSE reply'.tab

\* C21: a step of getSnapshot, getRefInfo or cleanupTab on one tab leaves
\* what getRefInfo returns for every handle of every other tab unchanged.
C21_SessionsIsolated ==
  [][TrackerStep =>
       \A B \in Tabs : B # StepTab =>
         \A n \in 0..MaxRefs : Resolve(B, n)' = Resolve(B, n)]_vars

\* The identifiers of the subtree of nodeId in depth-first order, the
\* identifiers that name no node left out.
RECURSIVE Preorder(_, _)
RECURSIVE PreorderAll(_, _)
PreorderAll(ns, ids) ==
  IF ids = <<>> THEN <<>>
  ELSE Preorder(ns, Head(ids)) \o PreorderAll(ns, Tail(ids))
Preorder(ns, nodeId) ==
  IF ~ns[nodeId].present THEN <<>>
  ELSE <<nodeId>> \o PreorderAll(ns, ns[nodeId].childIds)

\* The place of a node in the depth-first order from the root.
Place(nodeId) ==
  CHOOSE i \in 1..Len(Preorder(nodes, 1)) : Preorder(nodes, 1)[i] = nodeId

\* A node is reference-eligible under the options of the call.
Eligible(node) ==
  /\ node.backend
  /\ \/ node.role \in INTERACTIVE_ROLES
     \/ ~options.interactive /\ node.role \in CONTENT_ROLES_WITH_REF

\* The lines of the result that are before line i and carry a handle.
HandlesBefore(i) == {j \in 1..(i - 1) : result.snapshot[j].hasRef}

EarlierOfPair(h) ==
  {g \in DOMAIN result.refs :
     /\ g < h
     /\ result.refs[g].role = result.refs[h].role
     /\ result.refs[g].name = result.refs[h].name}
LaterOfPair(h) ==
  {g \in DOMAIN result.refs :
     /\ g > h
     /\ result.refs[g].role = result.refs[h].role
     /\ result.refs[g].name = result.refs[h].name}

\* C23: the line of a handle carries as [nth=] mark the number of earlier
\* handles of the same role and name (no mark for the first of them), and a
\* handle whose role and name no other handle has carries no mark on its line
\* and no nth in its refs entry.
C23_DuplicateIndex ==
  result.done =>
    \A i \in 1..Len(result.snapshot) :
      LET line == result.snapshot[i]
      IN line.hasRef =>
           /\ line.nth = Cardinality(EarlierOfPair(line.ref))
           /\ (EarlierOfPair(line.ref) = {} /\ LaterOfPair(line.ref) = {})
                => (line.nth = 0 /\ ~result.refs[line.ref].hasNth)

C23_Witness ==
  /\ result.done
  /\ \E i \in 1..Len(result.snapshot) :
       result.snapshot[i].hasRef /\ result.snapshot[i].nth = 1
  /\ \E h \in DOMAIN result.refs :
       EarlierOfPair(h) = {} /\ LaterOfPair(h) = {} /\ ~result.refs[h].hasNth

\* a is b with some of its elements left out.
RECURSIVE IsSubsequence(_, _)
IsSubsequence(a, b) ==
  IF a = <<>> THEN TRUE
  ELSE IF b = <<>> THEN FALSE
  ELSE IF Head(a) = Head(b) THEN IsSubsequence(Tail(a), Tail(b))
  ELSE IsSubsequence(a, Tail(b))

\* The snapshot of the same call made without compact.
WithoutCompact == formatAXTree(nodes, [options EXCEPT !.compact = FALSE]).snapshot

\* C24 as stated: the lines of a compact snapshot are a subsequence of the
\* lines of the snapshot made with the same options without compact.
C24_CompactSubsequence ==
  (result.done /\ options.compact) => IsSubsequence(result.snapshot, WithoutCompact)

\* C24 amended: the lines of a compact snapshot are a subsequence of the lines
\* of the snapshot made with the same options without compact, or compact
\* dropped every line and the snapshot is the "(empty)" placeholder alone.
C24_CompactSubsequenceOrEmpty ==
  (result.done /\ options.compact) =>
    \/ IsSubsequence(result.snapshot, WithoutCompact)
    \/ result.snapshot = <<Placeholder>>

C24_Witness ==
  /\ result.done
  /\ options.compact
  /\ result.snapshot # <<Placeholder>>
  /\ Len(result.snapshot) < Len(WithoutCompact)

\* The input with every child identifier that names no node taken out of the
\* childIds it is in.
WithoutDangling ==
  [n \in NodeIds |->
     [nodes[n] EXCEPT !.childIds = SelectSeq(@, LAMBDA c : nodes[c].present)]]

\* C25: formatAXTree returns, for an input with child identifiers that name
\* no node, the snapshot and the refs it returns for the same input without
\* those identifiers.
C25_DanglingSkipped ==
  result.done => result = formatAXTree(WithoutDangling, options)

C25_Witness ==
  /\ result.done
  /\ nodes[1].present
  /\ \E i, j \in 1..Len(nodes[1].childIds) :
       /\ i < j
       /\ ~nodes[nodes[1].childIds[i]].present
       /\ \E l \in 1..Len(result.snapshot) :
            result.snapshot[l].node = nodes[1].childIds[j]


\* A call of selectOption that reached the <select> element.
Selected == act'.fn = "select" /\ act'.calls = 2

labelOf(opt) == trimStr(opt.textContent)
EqualIgnoringCase(a, b) == toLowerCase(a) = toLowerCase(b)
MatchesAtAll(opt, v) == EqualIgnoringCase(opt.value, v) \/ EqualIgnoringCase(labelOf(opt), v)

\* The option at place i is one the fixed priority allows for v.
PriorityPick(opts, v, i) ==
  IF \E j \in 1..Len(opts) : opts[j].value = v THEN opts[i].value = v
  ELSE IF \E j \in 1..Len(opts) : labelOf(opts[j]) = v THEN labelOf(opts[i]) = v
  ELSE MatchesAtAll(opts[i], v)

\* C26: selectOption picks an option whose value equals the requested string
\* exactly; if the list has none, an option whose label equals it exactly; if
\* none, an option whose value or label equals it ignoring case; if none, it
\* throws "Option not found" with every option listed and leaves the element
\* as it was.
C26_SelectPriority ==
  [][Selected =>
       LET opts == element.options
           v == act'.value
       IN IF \E j \in 1..Len(opts) : MatchesAtAll(opts[j], v)
          THEN /\ act'.error = ""
               /\ \E i \in 1..Len(opts) :
                    /\ PriorityPick(opts, v, i)
                    /\ act'.selectedValue = opts[i].value
                    /\ act'.selectedLabel = labelOf(opts[i])
                    /\ element'.selectedIndex # 0
                    /\ opts[element'.selectedIndex].value = opts[i].value
          ELSE /\ act'.error = "Option not found"
               /\ act'.available =
                    [i \in 1..Len(opts) |->
                       [value |-> opts[i].value, label |-> labelOf(opts[i])]]
               /\ element' = element]_vars

PaddedBlue == [core |-> "blue", upper |-> TRUE, pad |-> TRUE]

\* C27: selectOption given "  Blue  " on the option list
\* [{value: "blue", label: "Blue"}] selects that option and returns
\* selectedValue "blue".
C27_PaddedBlue ==
  [][(/\ Selected
      /\ element.options = <<[value |-> blue, textContent |-> Blue]>>
      /\ act'.value = PaddedBlue)
       => /\ act'.error = ""
          /\ act'.selectedValue = blue
          /\ element'.selectedIndex = 1]_vars


\* A call of checkElement or uncheckElement that reached a checkbox or radio
\* button, and the state it aims at.
Checked == acts' = acts + 1 /\ act'.fn \in {"check", "uncheck"} /\ act'.error = ""
Target == act'.fn = "check"

\* C28: after checkElement (uncheckElement) the element is checked
\* (unchecked); the call reports wasAlreadyChecked (wasAlreadyUnchecked) true
\* exactly when the element was in that state before the call, and dispatches
\* one change event when the state flipped and none otherwise.
C28_CheckIdempotent ==
  [][Checked =>
       /\ element'.checked = Target
       /\ act'.was = (element.checked = Target)
       /\ element'.changes = element.changes + (IF element.checked = Target THEN 0 ELSE 1)]_vars

\* A second checkElement after the one that flipped the element: it reports
\* true and the element has had one change event in all.
C28_Witness ==
  /\ acts = 2
  /\ act.fn = "check" /\ act.error = "" /\ act.calls = 2
  /\ act.was
  /\ element.checked
  /\ element.changes = 1

\* C29: a waitForElement that polls comes to an end, for every maxWait and
\* interval it was given.
C29_WaitTerminates == (waiting.st = "polling") ~> (waiting.st = "idle")

\* C30: an element action called with a handle for which getRefInfo returns
\* null throws the "not found, run snapshot first" error, issues no
\* instrumentation call, and leaves the element alone and no wait polling.
C30_MissingHandleFails ==
  [][(acts' = acts + 1 /\ Resolve(act'.tab, act'.n) = Null)
       => /\ act'.error = ErrRefNotFound
          /\ act'.calls = 0
          /\ element' = element
          /\ waiting'.st = "idle"]_vars

\* clickElement has thrown for a handle that the table of a snapshotted tab
\* lacks.
C30_Witness ==
  /\ act.fn = "click" /\ act.tab = 1 /\ act.n = 1
  /\ tabSnapshotRefs[1] # NoTable
  /\ act.error = ErrRefNotFound /\ act.calls = 0


\* C31: a getSnapshot whose selector matches no element throws the selector
\* error and leaves the Map and the stored object, for its tab and every
\* other, as they were.
C31_NoMatchKeepsTables ==
  [][reply'.op = "selectorNotFound"
       => /\ tabSnapshotRefs' = tabSnapshotRefs
          /\ storage' = storage]_vars

\* A selector-scoped snapshot has failed on a tab that has a recorded table,
\* which the Map and the stored object still hold.
C31_Witness ==
  /\ reply.op = "selectorNotFound"
  /\ recorded[reply.tab] # NoTable /\ recorded[reply.tab].size > 0
  /\ tabSnapshotRefs[reply.tab] = recorded[reply.tab]
  /\ storage[reply.tab] = recorded[reply.tab]


\* C33: a pending entry is rejected with "Command timeout" only by the
\* callback of the timer that its own add armed, when that timer is due; the
\* identifier may have been added before, and the earlier entry may have ended
\* by resolve, timeout or clear or be pending still.
C33_OwnTimerOnly ==
  [][\A c \in Calls :
       (/\ call[c].promise = "pending"
        /\ call'[c].promise = "rejected"
        /\ call'[c].error = ErrTimeout)
         => /\ timer[c] = "armed" /\ ttl[c] = 0
            /\ timer'[c] = "fired"]_vars


\* C32: the 'close' event of a stream that a later connect has replaced
\* leaves the manager as it was: it still holds the later stream, reports
\* connected, and the heartbeat of the later stream keeps running.
C32_StaleCloseKeepsActive ==
  [][\A k \in Conns :
       (/\ stream[k] # "closed" /\ stream'[k] = "closed"
        /\ connection # 0 /\ connection # k
        /\ stream[connection] = "open" /\ heartbeatTimer)
         => /\ connection' = connection
            /\ isConnected(Cur)'
            /\ heartbeatTimer']_vars


\* A step, other than the shutdown, in which the manager loses or replaces
\* the connection it holds or that connection stops being open.
ChannelDrop ==
  /\ running'
  /\ connection # 0
  /\ connection' # connection \/ stream'[connection] # stream[connection]

WithoutLimit ==
  formatAXTree(nodes, [options EXCEPT !.limited = FALSE, !.maxDepth = 0]).snapshot

\* The line is in the snapshot: same node, same kind, same depth.
Emitted(snapshot, line) ==
  \E i \in 1..Len(snapshot) :
    /\ snapshot[i].node = line.node
    /\ snapshot[i].kind = line.kind
    /\ snapshot[i].indent = line.indent

\* A line that compact mode keeps only for the lines below it.
Structural(line) == line.kind = "node" /\ ~line.hasRef /\ line.name = ""

\* C34 as stated: with maxDepth d no line of the snapshot is deeper than d,
\* and every line of depth at most d of the snapshot made without maxDepth is
\* in it.
C34_DepthLimit ==
  (result.done /\ options.limited) =>
    /\ \A i \in 1..Len(result.snapshot) :
         result.snapshot[i].indent <= options.maxDepth
    /\ \A j \in 1..Len(WithoutLimit) :
         (WithoutLimit[j].kind # "empty" /\ WithoutLimit[j].indent <= options.maxDepth)
           => Emitted(result.snapshot, WithoutLimit[j])

\* C34 amended: with maxDepth d no line of a node is deeper than d; the one
\* deeper line is the /url line, at depth d + 1, right after the line of a
\* link of depth d. Every line of depth at most d of the snapshot made
\* without maxDepth is in the snapshot, but for the structural lines that
\* compact mode drops.
C34_DepthLimitButUrl ==
  (result.done /\ options.limited) =>
    /\ \A i \in 1..Len(result.snapshot) :
         \/ result.snapshot[i].indent <= options.maxDepth
         \/ /\ result.snapshot[i].kind = "url"
            /\ result.snapshot[i].indent = options.maxDepth + 1
            /\ i > 1
            /\ result.snapshot[i - 1].kind = "node"
            /\ result.snapshot[i - 1].role = "link"
            /\ result.snapshot[i - 1].node = result.snapshot[i].node
            /\ result.snapshot[i - 1].indent = options.maxDepth
    /\ \A j \in 1..Len(WithoutLimit) :
         (WithoutLimit[j].kind # "empty" /\ WithoutLimit[j].indent <= options.maxDepth)
           => \/ Emitted(result.snapshot, WithoutLimit[j])
              \/ options.compact /\ Structural(WithoutLimit[j])

\* A snapshot with maxDepth that has lines and lacks deeper lines of the
\* snapshot made without it.
C34_Witness ==
  /\ result.done
  /\ options.limited
  /\ result.snapshot # <<Placeholder>>
  /\ Len(result.snapshot) < Len(WithoutLimit)
  /\ \E j \in 1..Len(WithoutLimit) : WithoutLimit[j].indent > options.maxDepth + 1


\* The role, as the input has it, of the node a line belongs to.
RoleOfLine(line) == nodes[line.node].role

\* The nodes below a node of the input.
RECURSIVE Below(_)
Below(n) ==
  LET children == {nodes[n].childIds[i] : i \in 1..Len(nodes[n].childIds)}
      there == {c \in children : nodes[c].present}
  IN there \cup UNION {Below(c) : c \in there}

Searched(n) ==
  /\ nodes[n].present
  /\ \A a \in NodeIds :
       n \in Below(a) =>
         /\ nodes[a].present
         /\ (nodes[a].ignored \/ nodes[a].role \notin INTERACTIVE_ROLES)

MarkedLines(h) ==
  {i \in 1..Len(result.snapshot) :
     result.snapshot[i].hasRef /\ result.snapshot[i].ref = h}

\* C39: whatever the input and the options, the handles written as [ref=]
\* markers in the snapshot are exactly the keys of the refs returned with
\* it, and each of them is the marker of exactly one line.
C39_MarkersAreKeys ==
  result.done =>
    /\ {result.snapshot[i].ref :
          i \in {j \in 1..Len(result.snapshot) : result.snapshot[j].hasRef}}
         = DOMAIN result.refs
    /\ \A h \in DOMAIN result.refs : Cardinality(MarkedLines(h)) = 1

\* A compact snapshot with a depth limit that cut a node with a line off,
\* and with two handles in it.
C39_Witness ==
  /\ result.done /\ options.compact /\ options.limited
  /\ Cardinality(DOMAIN result.refs) = 2
  /\ \A h \in DOMAIN result.refs : MarkedLines(h) # {}
  /\ Len(WithoutLimit) > Len(result.snapshot)


\* A call of loadRefsFromStorage completes in the step: the one made at
\* module load, or the one getRefInfo made on a miss.
ReloadCompletes ==
  \/ boot.st = "got" /\ boot'.st = "done"
  \/ cmd.op = "getRefInfo" /\ cmd' = Idle

\* C38: a reload that completes leaves in the Map, for every tab, the table
\* it had or a table of a later snapshot, never the table of an earlier one;
\* getRefInfo on a tab with a recorded snapshot goes on returning the entries
\* of that snapshot.
C38_ReloadNeverOlder ==
  [][ReloadCompletes =>
       \A t \in Tabs :
         /\ tabSnapshotRefs'[t].gen >= tabSnapshotRefs[t].gen
         /\ (warm[t] /\ cmd = Idle) =>
              \A n \in 0..MaxRefs : Resolve(t, n)' = Lookup(recorded[t], n)]_vars


\* C37: whatever the order of the storage steps of the snapshots of two
\* tabs, once no snapshot is in flight the stored object holds, for each
\* tab, the table of the tab's latest completed snapshot.
C37_NoLostUpdate ==
  (\A t \in Tabs : saving[t] = NotSaving) =>
    \A t \in Tabs : recorded[t] # NoTable => storage[t] = recorded[t]


\* C40: formatAXTree returns a snapshot for every node list, also when the
\* child pointers come back to a node: the walk ends of itself and is not
\* cut off by the engine for want of stack.
C40_CompilationReturns ==
  result.done => ~result.threw

====
